---- MODULE Spec2Model ----
(***************************************************************************)
(* Routing / escalation core of the support agent:                         *)
(*   - EscalationSystem (escalation.py): ticket store, deduplication       *)
(*     against the vector collection, status updates;                      *)
(*   - operator handlers (handlers/admin.py): take, reply, close;          *)
(*   - MetricsCollector (metrics.py): outcome counters and the adaptive    *)
(*     confidence threshold;                                               *)
(*   - RequestClassifier.assess_response (classifier.py) and the request   *)
(*     cycle process_user_request_core (handlers/user.py).                 *)
(***************************************************************************)
EXTENDS Integers, Sequences, FiniteSets, TLC

VARIABLES
    tickets,        \* table "tickets": sequence of rows, row i has id i
    responses,      \* table "ticket_responses": sequence of rows
    collection,     \* vector collection "active_tickets_vectors": set of entries
    now,            \* wall clock read by datetime.now(timezone.utc)
    last,           \* the last call on the ticket store and what it returned
    total_requests, \* MetricsCollector.total_requests
    ai_resolved,    \* MetricsCollector.ai_resolved
    escalated,      \* MetricsCollector.escalated
    off_topic,      \* MetricsCollector.off_topic
    by_category,    \* MetricsCollector.by_category
    by_line,        \* MetricsCollector.by_line
    conversations,  \* handlers/user.py _user_conversations
    cycles,         \* request cycles in flight (process_user_request_core)
    calls,          \* create_ticket calls in flight, suspended at their awaits
    takes,          \* cb_take_ticket / cmd_take calls in flight, one per operator
    requests,       \* RateLimiter._requests: timestamps per (user, action)
    granted,        \* history: every call is_allowed granted since the last reset
    verdict,        \* what the last RateLimiter call returned
    retry,          \* the running retry loop (retry_with_backoff / call_with_retry)
    cache,          \* CacheManager._memory_cache and the record of its calls
    arrivals,       \* history: messages AddToConversation handed each user's context since its /clear
    stats           \* the get_queue_stats call in flight and the dictionary it builds

vars == <<tickets, responses, collection, now, last, total_requests,
          ai_resolved, escalated, off_topic, by_category, by_line,
          conversations, cycles, calls, takes, requests, granted, verdict, retry,
          cache, arrivals, stats>>

storeVars == <<tickets, responses, collection>>
metricVars == <<total_requests, ai_resolved, escalated, off_topic,
                by_category, by_line>>
utilVars == <<requests, granted, verdict, retry, cache, arrivals, stats>>
routerVars == <<conversations, cycles, calls, takes, utilVars>>

----------------------------------------------------------------------------
(* Bounds of the model *)

MaxTickets == 2
MaxClock == 5
MaxRequests == 10
MaxRetries == 3
Users == {1, 2}
Operators == {101, 102}
Texts == {1, 2, 3}
Slots == {1, 2}          \* request cycles that can be in flight together
Callers == {1, 2}        \* create_ticket calls that can be in flight together

----------------------------------------------------------------------------
(* models.py enumerations *)

OPEN == "open"
IN_PROGRESS == "in_progress"
ESCALATED == "escalated"
RESOLVED == "resolved"
CLOSED == "closed"
TicketStatus == {OPEN, IN_PROGRESS, ESCALATED, RESOLVED, CLOSED}

LINE_1 == "line_1"
LINE_2 == "line_2"
LINE_3 == "line_3"
SupportLine == {LINE_1, LINE_2, LINE_3}

Category == {"technical", "other"}
ClassifiedCategories == {"technical"}   \* categories the classifier returns in the model

NoOperator == 0     \* Ticket.operator_id is NULL
NoTime == 0         \* Ticket.resolved_at is NULL
SystemOperator == 0 \* TicketResponse.operator_id of "System (Deduplication)"

----------------------------------------------------------------------------
(* The vector collection.  Distances are in hundredths; the embedding is   *)
(* outside the repository, so the distance between two texts is a table.   *)

MergeThreshold == 40

Distance(a, b) == IF a >= b THEN (a - b) * 30 ELSE (b - a) * 30

TicketIds == 1..Len(tickets)

\* collection.query(query_texts=[..], n_results=1, where={"status": "open"})
QueryNearest(text) ==
    LET cand == {e \in collection : e.status = OPEN}
    IN  {e \in cand : \A f \in cand : Distance(text, e.text) <= Distance(text, f.text)}

\* find_similar_open_ticket: the ids it may return (empty set: None)
find_similar_open_ticket(text) ==
    {e.id : e \in {n \in QueryNearest(text) : Distance(text, n.text) < MergeThreshold}}

\* collection.update(ids=[id], metadatas=[{"status": s, ...}]): an absent id is skipped
CollectionUpdate(coll, id, s) ==
    {IF e.id = id THEN [e EXCEPT !.status = s] ELSE e : e \in coll}

\* collection.delete(ids=[id])
CollectionDelete(coll, id) == {e \in coll : e.id # id}

----------------------------------------------------------------------------
(* EscalationSystem.update_ticket_status: the row and the collection after *)
(* the call.                                                               *)

UpdatedRow(row, status, t) ==
    [row EXCEPT !.status = status,
                !.updated_at = t,
                !.resolved_at = IF status = RESOLVED THEN t ELSE @]

\* variant: only a closed case leaves the collection
UpdatedCollection_KeepsResolved(coll, id, status) ==
    IF status = CLOSED
    THEN CollectionDelete(coll, id)
    ELSE CollectionUpdate(coll, id, status)

UpdatedCollection(coll, id, status) ==
    IF status \in {CLOSED, RESOLVED}
    THEN CollectionDelete(coll, id)
    ELSE CollectionUpdate(coll, id, status)

Tick == now' = now + 1

Unchanged_metrics == UNCHANGED metricVars
Unchanged_router == UNCHANGED routerVars

----------------------------------------------------------------------------
(* EscalationSystem.create_ticket *)

NewRow(user, text, line, cat, t) ==
    [user_id |-> user, text |-> text, support_line |-> line, category |-> cat,
     status |-> OPEN, operator_id |-> NoOperator,
     created_at |-> t, updated_at |-> t, resolved_at |-> NoTime]

\* variant: the duplicate submission is also registered in the collection
MergeInto_IndexesDuplicate(id, user, text) ==
    /\ responses' = Append(responses, [ticket_id |-> id, operator_id |-> SystemOperator])
    /\ tickets' = [tickets EXCEPT ![id].updated_at = now + 1]
    /\ collection' = collection \cup
            {[id |-> id, status |-> OPEN, text |-> text, user_id |-> user]}
    /\ last' = [op |-> "create_ticket", id |-> id, ok |-> TRUE, is_new |-> FALSE]

\* the merge branch (lines 101-115): one system response, updated_at refreshed
MergeInto(id, user, text) ==
    /\ responses' = Append(responses, [ticket_id |-> id, operator_id |-> SystemOperator])
    /\ tickets' = [tickets EXCEPT ![id].updated_at = now + 1]
    /\ UNCHANGED collection
    /\ last' = [op |-> "create_ticket", id |-> id, ok |-> TRUE, is_new |-> FALSE]

\* the create branch (lines 117-151)
CreateNew(user, text, line, cat) ==
    /\ tickets' = Append(tickets, NewRow(user, text, line, cat, now + 1))
    /\ collection' = collection \cup
            {[id |-> Len(tickets) + 1, status |-> OPEN, text |-> text, user_id |-> user]}
    /\ UNCHANGED responses
    /\ last' = [op |-> "create_ticket", id |-> Len(tickets) + 1, ok |-> TRUE, is_new |-> TRUE]

create_ticket(user, text, line, cat) ==
    IF find_similar_open_ticket(text) # {}
    THEN \E id \in find_similar_open_ticket(text) : MergeInto(id, user, text)
    ELSE /\ Len(tickets) < MaxTickets
         /\ CreateNew(user, text, line, cat)

\* contact_operator_core / cb_manual_escalation: a requester opens a case by hand
ManualEscalation(user, text) ==
    /\ now < MaxClock
    /\ create_ticket(user, text, LINE_1, "other")
    /\ Tick
    /\ Unchanged_metrics /\ Unchanged_router

----------------------------------------------------------------------------
(* Operator handlers, handlers/admin.py *)

\* variant: the assignee is not looked at
Take_NoAssigneeCheck(op, id) ==
    /\ now < MaxClock
    /\ id \in TicketIds
    /\ tickets' = [tickets EXCEPT
            ![id] = UpdatedRow([@ EXCEPT !.operator_id = op], IN_PROGRESS, now + 1)]
    /\ collection' = UpdatedCollection(collection, id, IN_PROGRESS)
    /\ last' = [op |-> "take", id |-> id, ok |-> TRUE, is_new |-> FALSE]
    /\ UNCHANGED responses
    /\ Tick
    /\ Unchanged_metrics /\ Unchanged_router

\* cmd_take / cb_take_ticket
Take(op, id) ==
    /\ now < MaxClock
    /\ id \in TicketIds
    /\ IF tickets[id].operator_id # NoOperator /\ tickets[id].operator_id # op
       THEN /\ last' = [op |-> "take", id |-> id, ok |-> FALSE, is_new |-> FALSE]
            /\ UNCHANGED <<tickets, collection>>
       ELSE /\ tickets' = [tickets EXCEPT
                    ![id] = UpdatedRow([@ EXCEPT !.operator_id = op], IN_PROGRESS, now + 1)]
            /\ collection' = UpdatedCollection(collection, id, IN_PROGRESS)
            /\ last' = [op |-> "take", id |-> id, ok |-> TRUE, is_new |-> FALSE]
    /\ UNCHANGED responses
    /\ Tick
    /\ Unchanged_metrics /\ Unchanged_router

\* cmd_reply / process_reply_text
Reply(op, id) ==
    /\ now < MaxClock
    /\ id \in TicketIds
    /\ responses' = Append(responses, [ticket_id |-> id, operator_id |-> op])
    /\ LET assigned == IF tickets[id].operator_id = NoOperator
                       THEN [tickets[id] EXCEPT !.operator_id = op]
                       ELSE tickets[id]
       IN  IF tickets[id].status = OPEN
           THEN /\ tickets' = [tickets EXCEPT ![id] = UpdatedRow(assigned, IN_PROGRESS, now + 1)]
                /\ collection' = UpdatedCollection(collection, id, IN_PROGRESS)
           ELSE \* db.commit(): the row is written only if it changed, and
                \* Column(onupdate=now) then refreshes updated_at
                /\ tickets' = [tickets EXCEPT ![id] =
                        IF assigned # tickets[id]
                        THEN [assigned EXCEPT !.updated_at = now + 1]
                        ELSE assigned]
                /\ UNCHANGED collection
    /\ last' = [op |-> "reply", id |-> id, ok |-> TRUE, is_new |-> FALSE]
    /\ Tick
    /\ Unchanged_metrics /\ Unchanged_router

\* cmd_close / cb_close_ticket: update_ticket_status(id, RESOLVED)
Close(id) ==
    /\ now < MaxClock
    /\ id \in TicketIds
    /\ tickets' = [tickets EXCEPT ![id] = UpdatedRow(@, RESOLVED, now + 1)]
    /\ collection' = UpdatedCollection(collection, id, RESOLVED)
    /\ last' = [op |-> "resolve", id |-> id, ok |-> TRUE, is_new |-> FALSE]
    /\ UNCHANGED responses
    /\ Tick
    /\ Unchanged_metrics /\ Unchanged_router

\* EscalationSystem.update_ticket_status called with any other status
update_ticket_status(id, status) ==
    /\ now < MaxClock
    /\ id \in TicketIds
    /\ status \in {OPEN, ESCALATED, CLOSED}
    /\ tickets' = [tickets EXCEPT ![id] = UpdatedRow(@, status, now + 1)]
    /\ collection' = UpdatedCollection(collection, id, status)
    /\ last' = [op |-> "update_ticket_status", id |-> id, ok |-> TRUE, is_new |-> FALSE]
    /\ UNCHANGED responses
    /\ Tick
    /\ Unchanged_metrics /\ Unchanged_router

----------------------------------------------------------------------------
(* MetricsCollector, metrics.py.  The settings are those the repository's  *)
(* test installs (tests/test_core.py); rates are kept in percent.          *)

AI_CONFIDENCE_THRESHOLD == 70
TARGET_SUCCESS_RATE_PCT == 80
MIN_CONFIDENCE_THRESHOLD == 50
MAX_CONFIDENCE_THRESHOLD == 90
MinSamples == 5
Gain == 50

Max2(a, b) == IF a >= b THEN a ELSE b
Min2(a, b) == IF a <= b THEN a ELSE b

\* int(x) for the rational x = num / den, den > 0: truncation toward zero
TruncDiv(num, den) == IF num >= 0 THEN num \div den ELSE -((-num) \div den)

\* int(delta) with delta = (target_rate - ai / total) * 50 evaluated in
\* double precision.  The exact value is DeltaNum / total.  The literal 0.80
\* is the double just above 4/5, so when the exact value is a negative whole
\* number -k the computed product lies just above -k and int() gives -(k-1);
\* the one exception is -6 (rate 23/25), whose product is exactly -6.0.
\* Everywhere else the rounding error (about 1e-14) is far smaller than the
\* distance 1/total to the next whole number and int() is the exact truncation.
DeltaNum(total, ai) == (TARGET_SUCCESS_RATE_PCT * total - 100 * ai) * Gain

\* variant: the delta is rounded to the nearest whole number (half away from zero)
IntDelta_Rounded(total, ai) ==
    LET num == DeltaNum(total, ai)
        den == 100 * total
    IN  IF num >= 0 THEN (2 * num + den) \div (2 * den)
                    ELSE -((2 * (-num) + den) \div (2 * den))

\* variant: the rate is taken from the requests that were not auto-resolved
IntDelta_InvertedRate(total, ai) ==
    TruncDiv((TARGET_SUCCESS_RATE_PCT * total - 100 * (total - ai)) * Gain, 100 * total)

IntDelta(total, ai) ==
    LET num == DeltaNum(total, ai)
        den == 100 * total
    IN  IF num % den = 0 /\ num < 0 /\ num \div den # -6
        THEN (num \div den) + 1
        ELSE TruncDiv(num, den)

\* variant: the result is not clamped
AdaptiveThreshold_NoClamp(total, ai) ==
    IF total < MinSamples
    THEN AI_CONFIDENCE_THRESHOLD
    ELSE AI_CONFIDENCE_THRESHOLD - IntDelta(total, ai)

\* variant: the correction is applied from the second sample on
AdaptiveThreshold_NoMinSamples(total, ai) ==
    IF total < 2
    THEN AI_CONFIDENCE_THRESHOLD
    ELSE Max2(MIN_CONFIDENCE_THRESHOLD,
              Min2(AI_CONFIDENCE_THRESHOLD - IntDelta(total, ai),
                   MAX_CONFIDENCE_THRESHOLD))

\* variant: the correction is added instead of subtracted
AdaptiveThreshold_SignFlipped(total, ai) ==
    IF total < MinSamples
    THEN AI_CONFIDENCE_THRESHOLD
    ELSE Max2(MIN_CONFIDENCE_THRESHOLD,
              Min2(AI_CONFIDENCE_THRESHOLD + IntDelta(total, ai),
                   MAX_CONFIDENCE_THRESHOLD))

\* MetricsCollector.get_adaptive_threshold on counters (total, ai)
AdaptiveThreshold(total, ai) ==
    IF total < MinSamples
    THEN AI_CONFIDENCE_THRESHOLD
    ELSE Max2(MIN_CONFIDENCE_THRESHOLD,
              Min2(AI_CONFIDENCE_THRESHOLD - IntDelta(total, ai),
                   MAX_CONFIDENCE_THRESHOLD))

get_adaptive_threshold == AdaptiveThreshold(total_requests, ai_resolved)

\* variant: an escalated outcome is counted in the total only
record_request_SkipsEscalated(cat, line, is_bank_related, needs_escalation) ==
    /\ total_requests' = total_requests + 1
    /\ by_category' = [by_category EXCEPT ![cat] = @ + 1]
    /\ by_line' = [by_line EXCEPT ![line] = @ + 1]
    /\ IF ~is_bank_related
       THEN off_topic' = off_topic + 1 /\ UNCHANGED <<ai_resolved, escalated>>
       ELSE IF needs_escalation
            THEN UNCHANGED <<ai_resolved, escalated, off_topic>>
            ELSE ai_resolved' = ai_resolved + 1 /\ UNCHANGED <<escalated, off_topic>>

\* MetricsCollector.record_request.  The method has no await: under the
\* event loop it runs from its first line to its last without another
\* coroutine in between, so it is one step.
record_request(cat, line, is_bank_related, needs_escalation) ==
    /\ total_requests' = total_requests + 1
    /\ by_category' = [by_category EXCEPT ![cat] = @ + 1]
    /\ by_line' = [by_line EXCEPT ![line] = @ + 1]
    /\ IF ~is_bank_related
       THEN off_topic' = off_topic + 1 /\ UNCHANGED <<ai_resolved, escalated>>
       ELSE IF needs_escalation
            THEN escalated' = escalated + 1 /\ UNCHANGED <<ai_resolved, off_topic>>
            ELSE ai_resolved' = ai_resolved + 1 /\ UNCHANGED <<escalated, off_topic>>

\* variant: the rate is cut to one decimal instead of rounded
SuccessRateTenths_Floor(total, ai) ==
    IF total > 0 THEN (1000 * ai) \div total ELSE 0

\* get_stats()["success_rate"] in tenths of a percent: round(x, 1) of
\* x = ai / total * 100, and 0 while nothing was recorded.  round() goes to
\* the nearest tenth; an exact tie (first possible at total = 16) goes to
\* the even tenth.
SuccessRateTenths(total, ai) ==
    IF total > 0
    THEN LET down == (1000 * ai) \div total
             rest == 2 * ((1000 * ai) % total)
         IN  IF rest > total \/ (rest = total /\ down % 2 = 1) THEN down + 1 ELSE down
    ELSE 0

\* one finished classification cycle reported to the collector
RecordOutcome(cat, line, is_bank_related, needs_escalation) ==
    /\ total_requests < MaxRequests
    /\ record_request(cat, line, is_bank_related, needs_escalation)
    /\ UNCHANGED <<storeVars, now, last, routerVars>>

----------------------------------------------------------------------------
(* handlers/user.py: the conversation cache *)

ContextWindow == 10

\* variant: beyond the window the message just added is dropped
add_to_conversation_DropsNewest(conv, user, role, content) ==
    LET c == Append(conv[user], [role |-> role, content |-> content])
    IN  [conv EXCEPT ![user] = IF Len(c) > ContextWindow THEN SubSeq(c, 1, ContextWindow) ELSE c]

\* add_to_conversation: append, then drop the oldest beyond the window
add_to_conversation(conv, user, role, content) ==
    LET c == Append(conv[user], [role |-> role, content |-> content])
    IN  [conv EXCEPT ![user] = IF Len(c) > ContextWindow THEN Tail(c) ELSE c]

----------------------------------------------------------------------------
(* RequestClassifier.assess_response, classifier.py.  The model's reply is *)
(* either parsed into (confidence, needs_escalation) or the call / the     *)
(* parsing fails and the safe default is returned.                         *)

Confidences == {69, 70, 85}

FallbackConfidence == 70

\* variant: the cut-off also escalates a confidence equal to the threshold
AssessParsed_InclusiveCut(line, threshold, confidence, resolved, hint) ==
    LET cut == confidence <= threshold /\ ~hint
        routed == line \in {LINE_2, LINE_3}
    IN  [parsed |-> TRUE,
         confidence |-> confidence,
         is_resolved |-> IF cut THEN FALSE ELSE resolved,
         needs_escalation |-> IF routed THEN TRUE ELSE (hint \/ cut)]

\* lines 183-207: a parsed reply, with the threshold read at line 144
AssessParsed(line, threshold, confidence, resolved, hint) ==
    LET cut == confidence < threshold /\ ~hint
        routed == line \in {LINE_2, LINE_3}
    IN  [parsed |-> TRUE,
         confidence |-> confidence,
         is_resolved |-> IF cut THEN FALSE ELSE resolved,
         needs_escalation |-> IF routed THEN TRUE ELSE (hint \/ cut)]

\* variant: a failed assessment escalates by default
AssessFallback_Escalates ==
    [parsed |-> FALSE, confidence |-> 0,
     is_resolved |-> FALSE, needs_escalation |-> TRUE]

\* lines 208-217: the safe default
AssessFallback ==
    [parsed |-> FALSE, confidence |-> FallbackConfidence,
     is_resolved |-> TRUE, needs_escalation |-> FALSE]

NoAssessment ==
    [parsed |-> FALSE, confidence |-> 0, is_resolved |-> FALSE, needs_escalation |-> FALSE]

----------------------------------------------------------------------------
(* process_user_request_core, handlers/user.py.  A cycle is suspended at   *)
(* its awaits; the steps below are the code between two awaits.            *)

IdleCycle ==
    [pc |-> "idle", user |-> 0, text |-> 0, line |-> LINE_1, cat |-> "other",
     bank |-> TRUE, threshold |-> 0, hint |-> FALSE, assessment |-> NoAssessment,
     ticket |-> 0, is_new |-> FALSE, reply |-> "none"]

\* variant: the message enters the conversation before the domain check
Classified_HistoryBeforeCheck(r, user, text, line, cat, bank) ==
    /\ cycles[r].pc = "idle"
    /\ \A q \in Slots : q < r => cycles[q].pc # "idle"
    /\ conversations' = add_to_conversation(conversations, user, "user", text)
    /\ IF ~bank
       THEN cycles' = [cycles EXCEPT ![r] = [@ EXCEPT !.pc = "done", !.bank = FALSE,
                                                 !.reply = "rejected"]]
       ELSE cycles' = [cycles EXCEPT ![r] = [@ EXCEPT !.pc = "drafting", !.user = user,
                            !.text = text, !.line = line, !.cat = cat, !.bank = TRUE]]
    /\ UNCHANGED <<storeVars, now, last, metricVars, calls, takes, utilVars>>

\* lines 103-116: the classification arrives; an off-topic request is
\* rejected, otherwise the request enters the conversation
Classified(r, user, text, line, cat, bank) ==
    /\ cycles[r].pc = "idle"
    /\ \A q \in Slots : q < r => cycles[q].pc # "idle"
    /\ IF ~bank
       THEN /\ cycles' = [cycles EXCEPT ![r] = [@ EXCEPT !.pc = "done", !.bank = FALSE,
                                                 !.reply = "rejected"]]
            /\ UNCHANGED conversations
       ELSE /\ cycles' = [cycles EXCEPT ![r] = [@ EXCEPT !.pc = "drafting", !.user = user,
                            !.text = text, !.line = line, !.cat = cat, !.bank = TRUE]]
            /\ conversations' = add_to_conversation(conversations, user, "user", text)
    /\ UNCHANGED <<storeVars, now, last, metricVars, calls, takes, utilVars>>

\* classifier.py lines 103-110: what _parse_json_result returns when the
\* classifier's output cannot be parsed
DefaultClassification == [line |-> LINE_1, cat |-> "other", bank |-> TRUE]

\* lines 103-116 with classifier.py lines 78-110: the classifier's output
\* is malformed, classify returns the default and the cycle goes on
ClassifiedMalformed(r, user, text) ==
    /\ cycles[r].pc = "idle"
    /\ \A q \in Slots : q < r => cycles[q].pc # "idle"
    /\ cycles' = [cycles EXCEPT ![r] = [@ EXCEPT !.pc = "drafting", !.user = user,
                        !.text = text, !.line = DefaultClassification.line,
                        !.cat = DefaultClassification.cat,
                        !.bank = DefaultClassification.bank]]
    /\ conversations' = add_to_conversation(conversations, user, "user", text)
    /\ UNCHANGED <<storeVars, now, last, metricVars, calls, takes, utilVars>>

\* line 107 with classifier.py line 43: the model call inside classify
\* raises; neither classify nor the handler catches it, the handler ends
ClassifyRaises(r) ==
    /\ cycles[r].pc = "idle"
    /\ \A q \in Slots : q < r => cycles[q].pc # "idle"
    /\ cycles' = [cycles EXCEPT ![r] = [@ EXCEPT !.pc = "aborted"]]
    /\ UNCHANGED <<storeVars, now, last, metricVars, conversations, calls, takes, utilVars>>

\* lines 123 and 135: the knowledge-base lookup or the answer drafter
\* raises; the handler ends
DraftRaises(r) ==
    /\ cycles[r].pc = "drafting"
    /\ cycles' = [cycles EXCEPT ![r] = [IdleCycle EXCEPT !.pc = "aborted"]]
    /\ UNCHANGED <<storeVars, now, last, metricVars, conversations, calls, takes, utilVars>>

\* lines 135-139 and classifier.py line 144: the draft answer arrives, is
\* added to the conversation, and assess_response reads the threshold
Drafted(r) ==
    /\ cycles[r].pc = "drafting"
    /\ conversations' = add_to_conversation(conversations, cycles[r].user, "assistant", cycles[r].text)
    /\ cycles' = [cycles EXCEPT ![r] = [@ EXCEPT !.pc = "assessing",
                                         !.threshold = get_adaptive_threshold]]
    /\ UNCHANGED <<storeVars, now, last, metricVars, calls, takes, utilVars>>

\* how the assessment call can fail: the model call raises (line 175), the
\* reply holds no JSON object (line 180), or a field does not convert
\* (lines 181-183)
AssessFailures == {"raises", "no_json", "bad_field"}

\* what the assessment call can yield: a reply that parses into
\* confidence, is_resolved and needs_escalation (the hint), or a failure
AssessReplies ==
    [parsed : {TRUE}, failure : {"none"}, confidence : Confidences,
     is_resolved : BOOLEAN, hint : BOOLEAN] \cup
    [parsed : {FALSE}, failure : AssessFailures, confidence : {0},
     is_resolved : {FALSE}, hint : {FALSE}]

\* assess_response as a whole
assess_response(line, threshold, reply) ==
    IF reply.parsed
    THEN AssessParsed(line, threshold, reply.confidence, reply.is_resolved, reply.hint)
    ELSE AssessFallback

\* variant: a case is opened whatever the decision
Assessed_AlwaysOpensCase(r, reply) ==
    /\ cycles[r].pc = "assessing"
    /\ total_requests < MaxRequests
    /\ LET a == assess_response(cycles[r].line, cycles[r].threshold, reply)
       IN  /\ record_request(cycles[r].cat, cycles[r].line, cycles[r].bank, a.needs_escalation)
           /\ cycles' = [cycles EXCEPT ![r] = [@ EXCEPT
                    !.pc = "escalating",
                    !.assessment = a, !.hint = reply.hint,
                    !.reply = "none"]]
    /\ UNCHANGED <<storeVars, now, last, conversations, calls, takes, utilVars>>

\* variant: the threshold is read when the assessment returns
Assessed_FreshThreshold(r, reply) ==
    /\ cycles[r].pc = "assessing"
    /\ total_requests < MaxRequests
    /\ LET a == assess_response(cycles[r].line, get_adaptive_threshold, reply)
       IN  /\ record_request(cycles[r].cat, cycles[r].line, cycles[r].bank, a.needs_escalation)
           /\ cycles' = [cycles EXCEPT ![r] = [@ EXCEPT
                    !.pc = IF a.needs_escalation THEN "escalating" ELSE "done",
                    !.assessment = a, !.hint = reply.hint,
                    !.reply = IF a.needs_escalation THEN "none" ELSE "answer"]]
    /\ UNCHANGED <<storeVars, now, last, conversations, calls, takes, utilVars>>

\* lines 139-147: the assessment is returned and recorded; the decision
Assessed(r, reply) ==
    /\ cycles[r].pc = "assessing"
    /\ total_requests < MaxRequests
    /\ LET a == assess_response(cycles[r].line, cycles[r].threshold, reply)
       IN  /\ record_request(cycles[r].cat, cycles[r].line, cycles[r].bank, a.needs_escalation)
           /\ cycles' = [cycles EXCEPT ![r] = [@ EXCEPT
                    !.pc = IF a.needs_escalation THEN "escalating" ELSE "done",
                    !.assessment = a, !.hint = reply.hint,
                    !.reply = IF a.needs_escalation THEN "none" ELSE "answer"]]
    /\ UNCHANGED <<storeVars, now, last, conversations, calls, takes, utilVars>>

\* lines 147-182: the escalation branch and the reply
Escalate(r) ==
    /\ cycles[r].pc = "escalating"
    /\ now < MaxClock
    /\ create_ticket(cycles[r].user, cycles[r].text, cycles[r].line, cycles[r].cat)
    /\ Tick
    /\ cycles' = [cycles EXCEPT ![r] = [@ EXCEPT !.pc = "done", !.ticket = last'.id,
                                         !.is_new = last'.is_new, !.reply = "answer"]]
    /\ UNCHANGED <<metricVars, conversations, calls, takes, utilVars>>

\* lines 148-164 with escalation.py lines 153-156: create_ticket raises and
\* the handler logs it and answers without a case.  Either the store commit
\* raised (nothing persisted), or collection.add raised after the commit
\* (the row stays, without an entry in the collection).
EscalateFails(r, persisted) ==
    /\ cycles[r].pc = "escalating"
    /\ now < MaxClock
    /\ IF persisted
       THEN /\ find_similar_open_ticket(cycles[r].text) = {}
            /\ Len(tickets) < MaxTickets
            /\ tickets' = Append(tickets, NewRow(cycles[r].user, cycles[r].text,
                                                 cycles[r].line, cycles[r].cat, now + 1))
            /\ Tick
       ELSE UNCHANGED <<tickets, now>>
    /\ last' = [op |-> "create_ticket", id |-> 0, ok |-> FALSE, is_new |-> FALSE]
    /\ cycles' = [cycles EXCEPT ![r] = [@ EXCEPT !.pc = "done", !.reply = "answer"]]
    /\ UNCHANGED <<responses, collection, metricVars, conversations, calls, takes, utilVars>>

----------------------------------------------------------------------------
(* EscalationSystem.create_ticket step by step.  A call is suspended at    *)
(* its awaits (the collection query, db.commit, collection.add), and other *)
(* calls run in between.  The collection can be missing (self.collection   *)
(* is None) and each call on it can raise.                                 *)

IdleCall ==
    [pc |-> "idle", user |-> 0, text |-> 0, has_collection |-> TRUE,
     query_failed |-> FALSE, add_failed |-> FALSE,
     found |-> 0, row |-> 0, ticket |-> 0, is_new |-> FALSE, ok |-> TRUE]

callFrame == <<metricVars, conversations, cycles, takes, utilVars>>

\* lines 101-102 and 54-55: the call is entered; without a collection
\* find_similar_open_ticket returns None at once
Submit(p, user, text, has_collection) ==
    /\ calls[p].pc = "idle"
    /\ calls' = [calls EXCEPT ![p] = [@ EXCEPT
            !.pc = IF has_collection THEN "query" ELSE "commit",
            !.user = user, !.text = text, !.has_collection = has_collection]]
    /\ UNCHANGED <<storeVars, now, last, callFrame>>

\* variant: the query never reports a neighbour
QueryReturns_NeverMatches(p, raises) ==
    /\ calls[p].pc = "query"
    /\ calls' = [calls EXCEPT ![p] = [@ EXCEPT !.pc = "commit", !.query_failed = raises]]
    /\ UNCHANGED <<storeVars, now, last, callFrame>>

\* lines 57-81: collection.query returns or raises; a neighbour below the
\* threshold is fetched from the store and the call goes on to merge
QueryReturns(p, raises) ==
    /\ calls[p].pc = "query"
    /\ LET hits == IF raises THEN {} ELSE find_similar_open_ticket(calls[p].text)
       IN  IF hits = {}
           THEN calls' = [calls EXCEPT ![p] = [@ EXCEPT !.pc = "commit",
                                                !.query_failed = raises]]
           ELSE \E id \in hits :
                    calls' = [calls EXCEPT ![p] = [@ EXCEPT !.pc = "merge", !.found = id]]
    /\ UNCHANGED <<storeVars, now, last, callFrame>>

\* lines 103-115: the merge is committed and returned
MergeCommit(p) ==
    /\ calls[p].pc = "merge"
    /\ now < MaxClock
    /\ MergeInto(calls[p].found, calls[p].user, calls[p].text)
    /\ Tick
    /\ calls' = [calls EXCEPT ![p] = [@ EXCEPT !.pc = "done", !.ticket = calls[p].found,
                                        !.is_new = FALSE, !.ok = TRUE]]
    /\ UNCHANGED callFrame

\* lines 117-137: the new row is committed; without a collection the call
\* returns here (lines 149-151)
CreateCommit(p) ==
    /\ calls[p].pc = "commit"
    /\ now < MaxClock
    /\ Len(tickets) < MaxTickets
    /\ tickets' = Append(tickets, NewRow(calls[p].user, calls[p].text, LINE_1, "other", now + 1))
    /\ Tick
    /\ IF calls[p].has_collection
       THEN /\ calls' = [calls EXCEPT ![p] = [@ EXCEPT !.pc = "insert",
                                                !.row = Len(tickets) + 1]]
            /\ UNCHANGED last
       ELSE /\ calls' = [calls EXCEPT ![p] = [@ EXCEPT !.pc = "done",
                            !.row = Len(tickets) + 1, !.ticket = Len(tickets) + 1,
                            !.is_new = TRUE, !.ok = TRUE]]
            /\ last' = [op |-> "create_ticket", id |-> Len(tickets) + 1,
                        ok |-> TRUE, is_new |-> TRUE]
    /\ UNCHANGED <<responses, collection, callFrame>>

\* variant: the call returns without registering the case in the collection
IndexAdd_NoEntry(p, raises) ==
    /\ calls[p].pc = "insert"
    /\ calls' = [calls EXCEPT ![p] = [@ EXCEPT !.pc = "done", !.ticket = calls[p].row,
                                        !.is_new = TRUE, !.ok = TRUE]]
    /\ last' = [op |-> "create_ticket", id |-> calls[p].row, ok |-> TRUE, is_new |-> TRUE]
    /\ UNCHANGED <<storeVars, now, callFrame>>

\* lines 138-156: collection.add returns and the call returns (ticket, True),
\* or it raises: the rollback finds nothing to undo (the row was committed
\* at line 133) and the exception goes to the caller
IndexAdd(p, raises) ==
    /\ calls[p].pc = "insert"
    /\ IF raises
       THEN /\ calls' = [calls EXCEPT ![p] = [@ EXCEPT !.pc = "done", !.add_failed = TRUE,
                                                !.ok = FALSE]]
            /\ last' = [op |-> "create_ticket", id |-> 0, ok |-> FALSE, is_new |-> FALSE]
            /\ UNCHANGED collection
       ELSE /\ collection' = collection \cup
                    {[id |-> calls[p].row, status |-> OPEN, text |-> calls[p].text,
                      user_id |-> calls[p].user]}
            /\ calls' = [calls EXCEPT ![p] = [@ EXCEPT !.pc = "done", !.ticket = calls[p].row,
                                                !.is_new = TRUE, !.ok = TRUE]]
            /\ last' = [op |-> "create_ticket", id |-> calls[p].row,
                        ok |-> TRUE, is_new |-> TRUE]
    /\ UNCHANGED <<tickets, responses, now, callFrame>>

----------------------------------------------------------------------------
(* cb_take_ticket / cmd_take step by step: the handler reads the row and   *)
(* checks the assignee, then update_ticket_status commits and synchronises *)
(* the collection.  Each handler runs in its own database session.         *)

IdleTake == [pc |-> "idle", id |-> 0, ok |-> FALSE, loaded |-> OPEN]

takeFrame == <<responses, last, metricVars, conversations, cycles, calls, utilVars>>

\* admin.py lines 281-291: get_ticket_by_id loads the row into the
\* handler's session; a case held by another operator is refused, else the
\* session's copy gets the caller as operator (nothing is written yet)
TakeRead(op, id) ==
    /\ takes[op].pc = "idle"
    /\ id \in TicketIds
    /\ takes' = [takes EXCEPT ![op] =
            IF tickets[id].operator_id # NoOperator /\ tickets[id].operator_id # op
            THEN [pc |-> "done", id |-> id, ok |-> FALSE, loaded |-> tickets[id].status]
            ELSE [pc |-> "writing", id |-> id, ok |-> FALSE, loaded |-> tickets[id].status]]
    /\ UNCHANGED <<storeVars, now, takeFrame>>

\* escalation.py lines 161-171: the session's copy gets the status and
\* updated_at, and db.commit() writes the columns the session changed:
\* the operator, updated_at, and the status if it differs from the loaded
\* one.  The UPDATE carries no condition on what the row holds by now.
TakeCommit(op) ==
    /\ takes[op].pc = "writing"
    /\ now < MaxClock
    /\ tickets' = [tickets EXCEPT ![takes[op].id] =
            [@ EXCEPT !.operator_id = op,
                      !.status = IF takes[op].loaded # IN_PROGRESS THEN IN_PROGRESS ELSE @,
                      !.updated_at = now + 1]]
    /\ Tick
    /\ takes' = [takes EXCEPT ![op] = [@ EXCEPT !.pc = "syncing"]]
    /\ UNCHANGED <<collection, takeFrame>>

\* escalation.py lines 173-189 and admin.py lines 295-299: the collection
\* is synchronised and the operator is told the case is theirs
TakeSync(op) ==
    /\ takes[op].pc = "syncing"
    /\ collection' = UpdatedCollection(collection, takes[op].id, IN_PROGRESS)
    /\ takes' = [takes EXCEPT ![op] = [@ EXCEPT !.pc = "done", !.ok = TRUE]]
    /\ UNCHANGED <<tickets, now, takeFrame>>

\* cmd_close / cb_close_ticket step by step, escalation.py lines 161-171:
\* update_ticket_status(id, RESOLVED) commits the new status
CloseCommit(op, id) ==
    /\ takes[op].pc = "idle"
    /\ id \in TicketIds
    /\ now < MaxClock
    /\ tickets' = [tickets EXCEPT ![id] = UpdatedRow(@, RESOLVED, now + 1)]
    /\ Tick
    /\ takes' = [takes EXCEPT ![op] =
            [pc |-> "unindexing", id |-> id, ok |-> FALSE, loaded |-> tickets[id].status]]
    /\ UNCHANGED <<collection, takeFrame>>

\* escalation.py lines 173-195: the entry is removed from the collection and
\* the call returns, or collection.delete raises: the rollback finds nothing
\* to undo (the status was committed at line 171) and the exception goes to
\* the caller
CloseSync(op, raises) ==
    /\ takes[op].pc = "unindexing"
    /\ IF raises
       THEN /\ UNCHANGED collection
            /\ takes' = [takes EXCEPT ![op] = [@ EXCEPT !.pc = "done", !.ok = FALSE]]
       ELSE /\ collection' = UpdatedCollection(collection, takes[op].id, RESOLVED)
            /\ takes' = [takes EXCEPT ![op] = [@ EXCEPT !.pc = "done", !.ok = TRUE]]
    /\ UNCHANGED <<tickets, now, takeFrame>>

----------------------------------------------------------------------------
(* bot/utils/rate_limiter.py and bot/utils/retry.py *)

LimitedActions == {"message", "ticket_creation"}

\* _limits: (max_requests, window_seconds) per action, here as installed
\* by set_limit("message", 2, 2) and set_limit("ticket_creation", 1, 3)
limits ==
    [a \in LimitedActions |-> IF a = "message" THEN <<2, 2>> ELSE <<1, 3>>]

max_requests(a) == limits[a][1]
window_seconds(a) == limits[a][2]

NoVerdict == [op |-> "none", result |-> 0]

limiterFrame ==
    <<storeVars, last, metricVars, conversations, cycles, calls, takes, retry, cache,
      arrivals, stats>>

\* the list comprehension of lines 60-63 and 98-101: the timestamps younger
\* than the window
StillInWindow(stamps, t, window) == SelectSeq(stamps, LAMBDA ts : t - ts < window)

\* variant: a denied call is recorded as well
is_allowed_CountsDenied(user, action) ==
    LET kept == StillInWindow(requests[<<user, action>>], now, window_seconds(action))
        ok == Len(kept) < max_requests(action)
    IN  /\ action \in DOMAIN limits
        /\ requests' = [requests EXCEPT ![<<user, action>>] = Append(kept, now)]
        /\ granted' = [granted EXCEPT ![<<user, action>>] = IF ok THEN Append(@, now) ELSE @]
        /\ verdict' = [op |-> "is_allowed", result |-> IF ok THEN 1 ELSE 0]
        /\ UNCHANGED <<now, limiterFrame>>

\* RateLimiter.is_allowed for an action that has a limit.  granted is the
\* observer's record: the times of the calls that returned True since the
\* last reset and are not yet a whole window old.
is_allowed(user, action) ==
    LET kept == StillInWindow(requests[<<user, action>>], now, window_seconds(action))
        ok == Len(kept) < max_requests(action)
    IN  /\ action \in DOMAIN limits
        /\ requests' = [requests EXCEPT ![<<user, action>>] = IF ok THEN Append(kept, now) ELSE kept]
        /\ granted' = [granted EXCEPT ![<<user, action>>] = IF ok THEN Append(@, now) ELSE @]
        /\ verdict' = [op |-> "is_allowed", result |-> IF ok THEN 1 ELSE 0]
        /\ UNCHANGED <<now, limiterFrame>>

\* lines 49-51 and 89-90: an action without a limit is always allowed and
\* nothing is recorded; get_remaining answers -1
UnlimitedAction(get) ==
    /\ verdict' = IF get THEN [op |-> "get_remaining", result |-> -1]
                         ELSE [op |-> "is_allowed", result |-> 1]
    /\ UNCHANGED <<requests, granted, now, limiterFrame>>

\* RateLimiter.get_remaining
get_remaining(user, action) ==
    LET kept == StillInWindow(requests[<<user, action>>], now, window_seconds(action))
    IN  /\ requests' = [requests EXCEPT ![<<user, action>>] = kept]
        /\ verdict' = [op |-> "get_remaining",
                       result |-> Max2(0, max_requests(action) - Len(kept))]
        /\ UNCHANGED <<granted, now, limiterFrame>>

\* RateLimiter.reset(user_id, action); user 0 and action "None" stand for
\* the argument None
reset(user, action) ==
    LET cleared(k) == \/ user = 0
                      \/ user = k[1] /\ action \in {"None", k[2]}
    IN  /\ requests' = [k \in DOMAIN requests |-> IF cleared(k) THEN <<>> ELSE requests[k]]
        /\ granted' = [k \in DOMAIN granted |-> IF cleared(k) THEN <<>> ELSE granted[k]]
        /\ UNCHANGED <<verdict, now, limiterFrame>>

\* RateLimiter.cleanup_old_entries(max_age_seconds) with the default age,
\* which is longer than every window
cleanup_old_entries ==
    /\ \E max_age_seconds \in {1 + Max2(window_seconds("message"), window_seconds("ticket_creation"))} :
          requests' = [k \in DOMAIN requests |-> StillInWindow(requests[k], now, max_age_seconds)]
    /\ UNCHANGED <<granted, verdict, now, limiterFrame>>

\* time.time() moves on
TimePasses ==
    /\ now < MaxClock
    /\ Tick
    /\ granted' = [k \in DOMAIN granted |->
            SelectSeq(granted[k], LAMBDA ts : now + 1 - ts < window_seconds(k[2]))]
    /\ UNCHANGED <<requests, verdict, limiterFrame>>

\* the wrapper of retry_with_backoff / call_with_retry before it is called.
\* attempt, delay and last_exception are the code's locals; invocations,
\* successes and last_thrown are the observer's record of the calls made to
\* the wrapped function; result is the invocation whose value was returned.
IdleRetry ==
    [pc |-> "idle", api |-> "retry_with_backoff", max_retries |-> 0, attempt |-> 0,
     delay |-> 0, last_exception |-> "none",
     invocations |-> 0, successes |-> 0, last_thrown |-> "none",
     outcome |-> "none", result |-> 0, raised |-> "none"]

retryFrame ==
    <<storeVars, now, last, metricVars, conversations, cycles, calls, takes,
      requests, granted, verdict, cache, arrivals, stats>>

RetryAPIs == {"retry_with_backoff", "call_with_retry"}

\* what the wrapped function can raise: exceptions of the classes listed
\* in `exceptions`, and one that is not
Retried == {"ValueError", "TimeoutError"}
NotRetried == {"KeyboardInterrupt"}

initial_delay == 1
max_delay == 60
exponential_base == 2

\* variant: the loop makes one attempt more
Attempts_OneMore(n) == 0..(n + 1)

\* line 38 / line 102: range(max_retries + 1)
Attempts(n) == 0..n

\* line 54 / line 115: the delay after a failed attempt
NextDelay(api, delay, attempt) ==
    IF api = "retry_with_backoff"
    THEN Min2(delay * exponential_base, max_delay)
    ELSE Min2(delay * initial_delay * 2^attempt, max_delay)

\* lines 35-38 / 99-102: the wrapper is called
StartCall(api, n) ==
    /\ retry.pc = "idle"
    /\ retry' = [IdleRetry EXCEPT !.pc = "calling", !.api = api, !.max_retries = n,
                                  !.delay = initial_delay]
    /\ UNCHANGED retryFrame

\* lines 39-58 / 103-117 and the raise after the loop: one invocation of
\* the wrapped function, which returns ("ok") or raises
Invoke(outcome) ==
    /\ retry.pc = "calling"
    /\ LET r == [retry EXCEPT !.invocations = @ + 1]
       IN  retry' =
             IF outcome = "ok"
             THEN [r EXCEPT !.pc = "done", !.successes = @ + 1,
                            !.outcome = "returned", !.result = r.invocations]
             ELSE IF outcome \in NotRetried
             THEN [r EXCEPT !.pc = "done", !.last_thrown = outcome,
                            !.outcome = "raised", !.raised = outcome]
             ELSE IF retry.attempt < retry.max_retries
             THEN [r EXCEPT !.pc = "sleeping", !.last_thrown = outcome,
                            !.last_exception = outcome]
             ELSE IF retry.attempt + 1 \in Attempts(retry.max_retries)
             THEN [r EXCEPT !.attempt = @ + 1, !.last_thrown = outcome,
                            !.last_exception = outcome]
             ELSE [r EXCEPT !.pc = "done", !.last_thrown = outcome,
                            !.last_exception = outcome,
                            !.outcome = "raised", !.raised = outcome]
    /\ UNCHANGED retryFrame

\* lines 53-54 / 114-115: time.sleep(delay) returns, the delay grows and
\* the loop goes to its next attempt
Sleep ==
    /\ retry.pc = "sleeping"
    /\ retry' = [retry EXCEPT !.pc = "calling", !.attempt = @ + 1,
                              !.delay = NextDelay(retry.api, retry.delay, retry.attempt)]
    /\ UNCHANGED retryFrame

----------------------------------------------------------------------------
(* bot/utils/cache.py: the in-memory CacheManager (use_redis = False).     *)
(* Keys are tuples; None is the number 0 and cached values are 1 and 2.    *)

None == 0
CacheValues == {1, 2}
default_ttl == 3600
cache_ttl == 60                 \* the ttl given to cache_result

\* the ttl argument of set: None (-1), 0, or a number of seconds
TtlArgs == {-1, 0, 1}

\* the argument tuples the wrapped callable is called with: a plain
\* function f(x) and a method m(self, x), self being 0
CallArgs == {<<1>>, <<0, 1>>}

\* _make_key (lines 47-55, 191): the key is built from args[1:]
make_key(args) == Tail(args)

DirectKeys == {<<10>>}
CacheKeys == DirectKeys \cup {make_key(a) : a \in CallArgs}

NoEntry == [present |-> FALSE, value |-> None, expires_at |-> 0]
NeverSet == [live |-> FALSE, value |-> None, at |-> 0, ttl |-> 0]

NoReturn == [op |-> "none", value |-> None, executed |-> FALSE]

\* memory is _memory_cache.  The rest is the observer's record: written is
\* the most recent set of each direct key (live until a delete or clear),
\* returned the last value handed back and whether the wrapped callable was
\* executed for it, and ran_at the time the callable last ran for each
\* argument tuple (-1 when it has not run since the last clear).
EmptyCache ==
    [memory |-> [k \in CacheKeys |-> NoEntry],
     written |-> [k \in DirectKeys |-> NeverSet],
     returned |-> NoReturn,
     ran_at |-> [a \in CallArgs |-> -1]]

cacheFrame ==
    <<storeVars, last, metricVars, conversations, cycles, calls, takes,
      requests, granted, verdict, retry, arrivals, stats>>

\* line 98: ttl = ttl or self.default_ttl
EffectiveTtl(ttl) == IF ttl \in {-1, 0} THEN default_ttl ELSE ttl

\* lines 77-84: what get returns, and the cache it leaves
GetValue(memory, key, t) ==
    IF memory[key].present /\ t < memory[key].expires_at THEN memory[key].value ELSE None

GetMemory(memory, key, t) ==
    IF memory[key].present /\ ~(t < memory[key].expires_at)
    THEN [memory EXCEPT ![key] = NoEntry]
    ELSE memory

\* lines 109-113
SetMemory(memory, key, value, ttl, t) ==
    [memory EXCEPT ![key] =
        [present |-> TRUE, value |-> value, expires_at |-> t + EffectiveTtl(ttl)]]

\* CacheManager.get
Get(key) ==
    /\ cache' = [cache EXCEPT !.memory = GetMemory(@, key, now),
                              !.returned = [NoReturn EXCEPT !.op = "get",
                                                !.value = GetValue(cache.memory, key, now)]]
    /\ UNCHANGED <<now, cacheFrame>>

\* CacheManager.set
Set(key, value, ttl) ==
    /\ cache' = [cache EXCEPT !.memory = SetMemory(@, key, value, ttl, now),
                              !.written[key] = [live |-> TRUE, value |-> value,
                                                at |-> now, ttl |-> ttl],
                              !.returned = [NoReturn EXCEPT !.op = "set"]]
    /\ UNCHANGED <<now, cacheFrame>>

\* CacheManager.delete
Delete(key) ==
    /\ cache' = [cache EXCEPT !.memory[key] = NoEntry,
                              !.written[key] = NeverSet,
                              !.returned = [NoReturn EXCEPT !.op = "delete"]]
    /\ UNCHANGED <<now, cacheFrame>>

\* CacheManager.clear()
Clear ==
    /\ cache' = [EmptyCache EXCEPT !.returned = [NoReturn EXCEPT !.op = "clear"]]
    /\ UNCHANGED <<now, cacheFrame>>

\* cache_result's wrapper (lines 189-204) called with args; result is what
\* the wrapped callable returns if it is executed
CachedCall(args, result) ==
    LET key == make_key(args)
        cached == GetValue(cache.memory, key, now)
        looked == GetMemory(cache.memory, key, now)
    IN  /\ cache' =
              IF cached # None
              THEN [cache EXCEPT !.memory = looked,
                                 !.returned = [op |-> "call", value |-> cached,
                                               executed |-> FALSE]]
              ELSE [cache EXCEPT !.memory = SetMemory(looked, key, result, cache_ttl, now),
                                 !.ran_at[args] = now,
                                 !.returned = [op |-> "call", value |-> result,
                                               executed |-> TRUE]]
        /\ UNCHANGED <<now, cacheFrame>>

\* time.time() moves on
CacheTimePasses ==
    /\ now < MaxClock
    /\ Tick
    /\ UNCHANGED <<cache, cacheFrame>>

----------------------------------------------------------------------------
(* EscalationSystem.get_queue_stats, escalation.py lines 216-236, called by *)
(* cmd_stats.  For each line in turn two counting queries are awaited, so  *)
(* the call takes six steps and other handlers commit between them.        *)

\* "for line in SupportLine": the members in definition order
LineOrder == <<LINE_1, LINE_2, LINE_3>>

IdleStats == [pc |-> "idle", line |-> 1,
              result |-> [l \in SupportLine |-> [total |-> 0, open |-> 0]]]

statsFrame == <<storeVars, now, last, metricVars, conversations, cycles, calls, takes,
                requests, granted, verdict, retry, cache, arrivals>>

\* select count(*) where support_line = line and status != CLOSED
CountTotal(line) ==
    Cardinality({i \in TicketIds : tickets[i].support_line = line /\ tickets[i].status # CLOSED})

\* select count(*) where support_line = line and status = OPEN
CountOpen(line) ==
    Cardinality({i \in TicketIds : tickets[i].support_line = line /\ tickets[i].status = OPEN})

\* admin.py lines 242-245: /stats arrives and get_queue_stats is entered
StatsBegin ==
    /\ stats.pc \in {"idle", "done"}
    /\ stats' = [IdleStats EXCEPT !.pc = "total"]
    /\ UNCHANGED statsFrame

\* line 229: the first query of the current line returns
StatsTotal ==
    /\ stats.pc = "total"
    /\ stats' = [stats EXCEPT !.pc = "open",
                    !.result[LineOrder[stats.line]].total = CountTotal(LineOrder[stats.line])]
    /\ UNCHANGED statsFrame

\* lines 230-236: the second query returns, the line's entry is complete and
\* the loop goes to the next line or returns the dictionary
StatsOpen ==
    /\ stats.pc = "open"
    /\ stats' = [stats EXCEPT
                    !.pc = IF stats.line = Len(LineOrder) THEN "done" ELSE "total",
                    !.line = IF stats.line = Len(LineOrder) THEN @ ELSE @ + 1,
                    !.result[LineOrder[stats.line]].open = CountOpen(LineOrder[stats.line])]
    /\ UNCHANGED statsFrame

\* user.py lines 147-160: a request routed to a line opens its case
RoutedEscalation(user, text, line) ==
    /\ now < MaxClock
    /\ create_ticket(user, text, line, "technical")
    /\ Tick
    /\ Unchanged_metrics /\ Unchanged_router

InitUtil ==
    /\ requests = [k \in Users \X LimitedActions |-> <<>>]
    /\ granted = [k \in Users \X LimitedActions |-> <<>>]
    /\ verdict = NoVerdict
    /\ retry = IdleRetry
    /\ cache = EmptyCache
    /\ arrivals = [u \in Users |-> 0]
    /\ stats = IdleStats

----------------------------------------------------------------------------

NoOp == [op |-> "none", id |-> 0, ok |-> TRUE, is_new |-> FALSE]

Init ==
    /\ tickets = <<>>
    /\ responses = <<>>
    /\ collection = {}
    /\ now = 0
    /\ last = NoOp
    /\ total_requests = 0
    /\ ai_resolved = 0
    /\ escalated = 0
    /\ off_topic = 0
    /\ by_category = [c \in Category |-> 0]
    /\ by_line = [l \in SupportLine |-> 0]
    /\ conversations = [u \in Users |-> <<>>]
    /\ cycles = [r \in Slots |-> IdleCycle]
    /\ calls = [p \in Callers |-> IdleCall]
    /\ takes = [op \in Operators |-> IdleTake]
    /\ InitUtil

Next ==
    \/ \E u \in Users, t \in Texts : ManualEscalation(u, t)
    \/ \E op \in Operators, id \in 1..MaxTickets : Take(op, id)
    \/ \E op \in Operators, id \in 1..MaxTickets : Reply(op, id)
    \/ \E id \in 1..MaxTickets : Close(id)
    \/ \E id \in 1..MaxTickets, s \in {OPEN, ESCALATED, CLOSED} : update_ticket_status(id, s)

Spec == Init /\ [][Next]_vars

\* the gate alone: any sequence of recorded outcomes
NextGate ==
    \E cat \in Category, line \in SupportLine, bank \in BOOLEAN, esc \in BOOLEAN :
        RecordOutcome(cat, line, bank, esc)

SpecGate == Init /\ [][NextGate]_vars

\* the request cycles, one per slot, after earlier traffic
\* has left the collector with one of a few counter states
EarlierTraffic == {<<0, 0>>, <<10, 6>>, <<5, 5>>, <<4, 4>>}

InitRouter ==
    /\ tickets = <<>>
    /\ responses = <<>>
    /\ collection = {}
    /\ now = 0
    /\ last = NoOp
    /\ \E c \in EarlierTraffic :
          /\ total_requests = c[1]
          /\ ai_resolved = c[2]
          /\ escalated = c[1] - c[2]
          /\ off_topic = 0
          /\ by_category = [k \in Category |-> IF k = "other" THEN c[1] ELSE 0]
          /\ by_line = [l \in SupportLine |-> IF l = LINE_1 THEN c[1] ELSE 0]
    /\ conversations = [u \in Users |-> <<>>]
    /\ cycles = [r \in Slots |-> IdleCycle]
    /\ calls = [p \in Callers |-> IdleCall]
    /\ takes = [op \in Operators |-> IdleTake]
    /\ InitUtil

NextRouter ==
    \/ \E r \in Slots, u \in Users, t \in Texts, l \in SupportLine, c \in ClassifiedCategories, b \in BOOLEAN :
            Classified(r, u, t, l, c, b)
    \/ \E r \in Slots : Drafted(r)
    \/ \E r \in Slots, reply \in AssessReplies : Assessed(r, reply)
    \/ \E r \in Slots : Escalate(r)

SpecRouter == InitRouter /\ [][NextRouter]_vars

\* the request cycles with their collaborators failing: the classifier
\* returns malformed output or raises, the lookup or the drafter raises,
\* the assessment fails, create_ticket raises
NextRouterFaults ==
    \/ \E r \in Slots, u \in Users, t \in Texts, l \in SupportLine, c \in ClassifiedCategories, b \in BOOLEAN :
            Classified(r, u, t, l, c, b)
    \/ \E r \in Slots, u \in Users, t \in Texts : ClassifiedMalformed(r, u, t)
    \/ \E r \in Slots : ClassifyRaises(r)
    \/ \E r \in Slots : Drafted(r)
    \/ \E r \in Slots : DraftRaises(r)
    \/ \E r \in Slots, reply \in AssessReplies : Assessed(r, reply)
    \/ \E r \in Slots : Escalate(r)
    \/ \E r \in Slots, persisted \in BOOLEAN : EscalateFails(r, persisted)

SpecRouterFaults == Init /\ [][NextRouterFaults]_vars

\* one call through retry_with_backoff or RetryableAPI.call_with_retry
NextRetry ==
    \/ \E api \in RetryAPIs, n \in 0..MaxRetries : StartCall(api, n)
    \/ \E outcome \in {"ok"} \cup Retried \cup NotRetried : Invoke(outcome)
    \/ Sleep

SpecRetry == Init /\ [][NextRetry]_vars

\* the wrapped function returns or raises, and time.sleep returns: a
\* started call is never suspended for ever
SpecRetryFair == SpecRetry /\ WF_vars(NextRetry)

\* the cache manager alone
NextCache ==
    \/ \E k \in DirectKeys : Get(k)
    \/ \E k \in DirectKeys, v \in CacheValues, ttl \in TtlArgs : Set(k, v, ttl)
    \/ \E k \in DirectKeys : Delete(k)
    \/ Clear
    \/ \E a \in CallArgs, v \in CacheValues \cup {None} : CachedCall(a, v)
    \/ CacheTimePasses

SpecCache == Init /\ [][NextCache]_vars

\* the rate limiter alone
NextLimiter ==
    \/ \E u \in Users, a \in LimitedActions : is_allowed(u, a)
    \/ \E u \in Users, a \in LimitedActions : get_remaining(u, a)
    \/ \E get \in BOOLEAN : UnlimitedAction(get)
    \/ \E u \in Users \cup {0}, a \in LimitedActions \cup {"None"} : reset(u, a)
    \/ cleanup_old_entries
    \/ TimePasses

SpecLimiter == Init /\ [][NextLimiter]_vars

\* create_ticket calls running while operators resolve cases, step by step
NextResolveRace ==
    \/ \E p \in Callers, u \in Users, t \in Texts, c \in BOOLEAN : Submit(p, u, t, c)
    \/ \E p \in Callers, raises \in BOOLEAN : QueryReturns(p, raises)
    \/ \E p \in Callers : MergeCommit(p)
    \/ \E p \in Callers : CreateCommit(p)
    \/ \E p \in Callers, raises \in BOOLEAN : IndexAdd(p, raises)
    \/ \E op \in Operators, id \in 1..MaxTickets : CloseCommit(op, id)
    \/ \E op \in Operators, raises \in BOOLEAN : CloseSync(op, raises)

SpecResolveRace == Init /\ [][NextResolveRace]_vars

\* create_ticket called with an empty description next to an ordinary one
EmptyText == 0
DegenerateTexts == {EmptyText, 3}

NextDegenerate ==
    \/ \E p \in Callers, u \in Users, t \in DegenerateTexts, c \in BOOLEAN : Submit(p, u, t, c)
    \/ \E p \in Callers, raises \in BOOLEAN : QueryReturns(p, raises)
    \/ \E p \in Callers : MergeCommit(p)
    \/ \E p \in Callers : CreateCommit(p)
    \/ \E p \in Callers, raises \in BOOLEAN : IndexAdd(p, raises)

SpecDegenerate == Init /\ [][NextDegenerate]_vars

\* operators taking cases at the same time, step by step
NextClaim ==
    \/ \E u \in Users, t \in Texts : ManualEscalation(u, t)
    \/ \E op \in Operators, id \in 1..MaxTickets : TakeRead(op, id)
    \/ \E op \in Operators : TakeCommit(op)
    \/ \E op \in Operators : TakeSync(op)

SpecClaim == Init /\ [][NextClaim]_vars

\* the request cycles of one user after earlier traffic, with create_ticket
\* failing
NextRouterGate ==
    \/ \E r \in Slots, t \in Texts, l \in SupportLine, c \in ClassifiedCategories, b \in BOOLEAN :
            Classified(r, 1, t, l, c, b)
    \/ \E r \in Slots : Drafted(r)
    \/ \E r \in Slots, reply \in AssessReplies : Assessed(r, reply)
    \/ \E r \in Slots : Escalate(r)
    \/ \E r \in Slots, persisted \in BOOLEAN : EscalateFails(r, persisted)

SpecRouterGate == InitRouter /\ [][NextRouterGate]_vars

\* the conversation cache on its own: messages are added for either user
\* and either user sends /clear.  The first user's messages come in two
\* kinds (a question, an answer), the second user's in one.
MaxArrivals == 12

Roles(user) == IF user = 1 THEN {"user", "assistant"} ELSE {"user"}

conversationFrame == <<storeVars, now, last, metricVars, cycles, calls, takes,
                       requests, granted, verdict, retry, cache, stats>>

\* one call of add_to_conversation (user.py lines 37-42)
AddToConversation(user, role, content) ==
    /\ arrivals[user] < MaxArrivals
    /\ conversations' = add_to_conversation(conversations, user, role, content)
    /\ arrivals' = [arrivals EXCEPT ![user] = @ + 1]
    /\ UNCHANGED conversationFrame

\* /clear (user.py lines 389-393): the user's list is replaced by an empty one
cmd_clear(user) ==
    /\ conversations' = [conversations EXCEPT ![user] = <<>>]
    /\ arrivals' = [arrivals EXCEPT ![user] = 0]
    /\ UNCHANGED conversationFrame

NextConversation ==
    \/ \E u \in Users : \E role \in Roles(u) : AddToConversation(u, role, 1)
    \/ \E u \in Users : cmd_clear(u)

SpecConversation == Init /\ [][NextConversation]_vars

\* /stats while requesters open cases and operators take and close them
NextStats ==
    \/ \E t \in Texts, l \in SupportLine : RoutedEscalation(1, t, l)
    \/ \E id \in 1..MaxTickets : Take(101, id)
    \/ \E id \in 1..MaxTickets : Close(id)
    \/ \E id \in 1..MaxTickets : update_ticket_status(id, CLOSED)
    \/ StatsBegin
    \/ StatsTotal
    \/ StatsOpen

SpecStats == Init /\ [][NextStats]_vars

\* concurrent create_ticket calls (manual escalations), step by step
NextDedup ==
    \/ \E p \in Callers, u \in Users, t \in Texts, c \in BOOLEAN : Submit(p, u, t, c)
    \/ \E p \in Callers, raises \in BOOLEAN : QueryReturns(p, raises)
    \/ \E p \in Callers : MergeCommit(p)
    \/ \E p \in Callers : CreateCommit(p)
    \/ \E p \in Callers, raises \in BOOLEAN : IndexAdd(p, raises)

SpecDedup == Init /\ [][NextDedup]_vars

----------------------------------------------------------------------------
(* Properties *)

Terminal == {RESOLVED, CLOSED}

\* C1: a case whose status is Resolved or Closed keeps that status in
\* every step, whatever operation runs.
C1_TerminalStatusKept ==
    [][\A i \in TicketIds :
          tickets[i].status \in Terminal => tickets'[i].status = tickets[i].status]_vars

\* a resolve call (cmd_close) has just run on case i, which was already Resolved
ResolveAgain(i) ==
    /\ last'.op = "resolve" /\ last'.id = i /\ now' # now
    /\ i \in TicketIds /\ tickets[i].status = RESOLVED

\* C2: resolving an already-Resolved case succeeds and changes nothing:
\* resolvedAt, updatedAt, the history and the similarity index stay as
\* they were.
C2_ResolveIdempotent ==
    [][\A i \in 1..MaxTickets :
          ResolveAgain(i) =>
              /\ last'.ok
              /\ tickets'[i].resolved_at = tickets[i].resolved_at
              /\ tickets'[i].updated_at = tickets[i].updated_at
              /\ responses' = responses
              /\ collection' = collection]_vars

\* C3: for every case, resolvedAt is set exactly when the status is Resolved.
C3_ResolvedAtIffResolved ==
    \A i \in TicketIds :
        (tickets[i].resolved_at # NoTime) <=> (tickets[i].status = RESOLVED)

\* C4: whatever outcomes were recorded, the adaptive threshold lies within
\* [MIN_CONFIDENCE_THRESHOLD, MAX_CONFIDENCE_THRESHOLD].
C4_ThresholdWithinBounds ==
    /\ get_adaptive_threshold >= MIN_CONFIDENCE_THRESHOLD
    /\ get_adaptive_threshold <= MAX_CONFIDENCE_THRESHOLD

\* C4 witness: enough samples, and the unclamped value falls below the minimum
C4_Witness ==
    /\ total_requests >= MinSamples
    /\ AI_CONFIDENCE_THRESHOLD - IntDelta(total_requests, ai_resolved) < MIN_CONFIDENCE_THRESHOLD
    /\ get_adaptive_threshold = MIN_CONFIDENCE_THRESHOLD

\* C5: with fewer than MinSamples recorded requests the adaptive threshold
\* is the static default, whatever the mix of outcomes.
C5_DefaultBelowMinSamples ==
    total_requests < MinSamples => get_adaptive_threshold = AI_CONFIDENCE_THRESHOLD

\* C5 witness: four samples, none auto-resolved, threshold still the default
C5_Witness ==
    /\ total_requests = MinSamples - 1
    /\ ai_resolved = 0
    /\ escalated > 0
    /\ get_adaptive_threshold = AI_CONFIDENCE_THRESHOLD

Clamp(x) == Max2(MIN_CONFIDENCE_THRESHOLD, Min2(x, MAX_CONFIDENCE_THRESHOLD))

Abs(x) == IF x >= 0 THEN x ELSE -x

DeltaRange == -100..100

\* r is a nearest whole number to num / den
IsNearest(r, num, den) == 2 * Abs(r * den - num) <= den

\* C6 as stated: with at least 5 samples the threshold is the default minus
\* the delta rounded to a nearest whole number, clamped.
C6_RoundedDelta ==
    total_requests >= MinSamples =>
        \E r \in DeltaRange :
            /\ IsNearest(r, DeltaNum(total_requests, ai_resolved), 100 * total_requests)
            /\ get_adaptive_threshold = Clamp(AI_CONFIDENCE_THRESHOLD - r)

\* t is what int() makes of the double-precision delta whose exact value is
\* num / den: the truncation toward zero, except that an exactly whole
\* negative delta other than -6 comes out one closer to zero
IsIntOfDelta(t, num, den) ==
    IF num >= 0
    THEN t >= 0 /\ t * den <= num /\ num < (t + 1) * den
    ELSE IF num = (t - 1) * den
         THEN t - 1 # -6
         ELSE /\ t <= 0 /\ (t - 1) * den < num /\ num <= t * den
              /\ (num = t * den => t = -6)

\* C6 (amended): with at least 5 samples the threshold is the default minus
\* the delta truncated toward zero by int(), clamped; 6 of 10 gives 60 and
\* 95 of 100 gives 77.
C6_TruncatedDelta ==
    /\ total_requests >= MinSamples =>
          \E t \in DeltaRange :
              /\ IsIntOfDelta(t, DeltaNum(total_requests, ai_resolved), 100 * total_requests)
              /\ get_adaptive_threshold = Clamp(AI_CONFIDENCE_THRESHOLD - t)
    /\ (total_requests = 10 /\ ai_resolved = 6) => get_adaptive_threshold = 60
    /\ AdaptiveThreshold(100, 95) = 77

\* C6 witness: 6 auto-resolved of 10 gives 60
C6_Witness ==
    /\ total_requests = 10
    /\ ai_resolved = 6
    /\ get_adaptive_threshold = 60

AtTarget == 100 * ai_resolved = TARGET_SUCCESS_RATE_PCT * total_requests
BelowTarget == 100 * ai_resolved < TARGET_SUCCESS_RATE_PCT * total_requests
AboveTarget == 100 * ai_resolved > TARGET_SUCCESS_RATE_PCT * total_requests

\* C7: with at least MinSamples samples and the automation rate equal to
\* the target rate, the threshold is the default.
C7_ZeroCorrectionAtTarget ==
    (total_requests >= MinSamples /\ AtTarget) =>
        get_adaptive_threshold = AI_CONFIDENCE_THRESHOLD

\* C7 witness: 8 auto-resolved of 10
C7_Witness ==
    /\ total_requests = 10
    /\ ai_resolved = 8
    /\ get_adaptive_threshold = AI_CONFIDENCE_THRESHOLD

\* C8: with at least MinSamples samples, a rate below the target gives a
\* threshold at most the default and a rate above it a threshold at least
\* the default; for the current total the threshold never decreases as the
\* number of auto-resolved samples grows.
C8_GateDirection ==
    total_requests >= MinSamples =>
        /\ BelowTarget => get_adaptive_threshold <= AI_CONFIDENCE_THRESHOLD
        /\ AboveTarget => get_adaptive_threshold >= AI_CONFIDENCE_THRESHOLD
        /\ \A a \in 0..(total_requests - 1) :
              AdaptiveThreshold(total_requests, a) <= AdaptiveThreshold(total_requests, a + 1)

\* C8 witness: a rate above the target has raised the threshold
C8_Witness ==
    /\ total_requests >= MinSamples
    /\ AboveTarget
    /\ get_adaptive_threshold > AI_CONFIDENCE_THRESHOLD

\* the cycle in slot r is in domain and its assessment has been returned
Decided(r) == cycles[r].bank /\ cycles[r].pc \in {"escalating", "done"}

\* C9: for an in-domain tier-1 request whose assessment was parsed,
\* needs_escalation holds exactly when the confidence is strictly below the
\* threshold the gate returned or the assessment's own hint is set.
C9_Tier1Decision ==
    \A r \in Slots :
        (Decided(r) /\ cycles[r].line = LINE_1 /\ cycles[r].assessment.parsed) =>
            (cycles[r].assessment.needs_escalation <=>
                (cycles[r].assessment.confidence < cycles[r].threshold \/ cycles[r].hint))

\* C9 witness: tier 1, no hint, confidence equal to the threshold, not escalated
C9_Witness ==
    \E r \in Slots :
        /\ Decided(r) /\ cycles[r].line = LINE_1 /\ cycles[r].assessment.parsed
        /\ ~cycles[r].hint
        /\ cycles[r].assessment.confidence = cycles[r].threshold
        /\ ~cycles[r].assessment.needs_escalation
        /\ cycles[r].pc = "done"

\* C10: an in-domain request classified to line 2 or line 3 always ends
\* with needs_escalation = true, also when the assessment fell back to the
\* safe default.
C10_UpperTierEscalates ==
    \A r \in Slots :
        (Decided(r) /\ cycles[r].line \in {LINE_2, LINE_3}) =>
            cycles[r].assessment.needs_escalation

\* C11: when the request cycle escalates and create_ticket makes a new case
\* for it, that case is stored with status Escalated.
C11_EscalatedCaseStoredEscalated ==
    [][\A r \in Slots :
          (cycles[r].pc = "escalating" /\ cycles'[r].pc = "done" /\ cycles'[r].is_new) =>
              tickets'[cycles'[r].ticket].status = ESCALATED]_vars

\* the step in which slot r's request is rejected as out of domain
Rejected(r) == cycles[r].pc = "idle" /\ cycles'[r].reply = "rejected"

\* C12: rejecting an out-of-domain request has no side effects: the case
\* store, the similarity index, every counter of the collector and every
\* conversation are unchanged.
C12_RejectionHasNoEffect ==
    [][\A r \in Slots :
          Rejected(r) =>
              /\ cycles'[r].pc = "done"
              /\ UNCHANGED <<tickets, responses, collection>>
              /\ UNCHANGED <<total_requests, ai_resolved, escalated, off_topic,
                             by_category, by_line>>
              /\ UNCHANGED conversations]_vars

\* C12 witness: a request was rejected while a case, recorded outcomes and
\* a conversation already existed
C12_Witness ==
    \E r \in Slots :
        /\ cycles[r].pc = "done" /\ cycles[r].reply = "rejected" /\ ~cycles[r].bank
        /\ Len(tickets) > 0
        /\ collection # {}
        /\ \E u \in Users : Len(conversations[u]) > 0
        /\ \E q \in Slots : q # r /\ cycles[q].pc = "done" /\ cycles[q].ticket # 0

Samples == ai_resolved + escalated + off_topic

\* C13: when the decision of an in-domain request is needs_escalation =
\* false the cycle ends there: no step of the cycle touches the case store
\* or the index, the assessment step records exactly one outcome sample,
\* and the finished cycle takes no further step.
C13_NoCaseWithoutEscalation ==
    [][\A r \in Slots :
          /\ (cycles[r].pc \in {"idle", "drafting"} /\ cycles'[r] # cycles[r]) =>
                 UNCHANGED <<storeVars, metricVars>>
          /\ (cycles[r].pc = "assessing" /\ cycles'[r].pc # "assessing"
                  /\ ~cycles'[r].assessment.needs_escalation) =>
                 /\ cycles'[r].pc = "done"
                 /\ cycles'[r].ticket = 0
                 /\ UNCHANGED storeVars
                 /\ total_requests' = total_requests + 1
                 /\ ai_resolved' = ai_resolved + 1
                 /\ Samples' = Samples + 1
          /\ cycles[r].pc = "done" => cycles'[r] = cycles[r]]_vars

\* C13 witness: tier 1, confidence 85 against threshold 70, no hint: the
\* cycle is finished with an answer and without a case
C13_Witness ==
    \E r \in Slots :
        /\ Decided(r) /\ cycles[r].pc = "done" /\ cycles[r].line = LINE_1
        /\ cycles[r].assessment.parsed /\ cycles[r].assessment.confidence = 85
        /\ cycles[r].threshold = 70 /\ ~cycles[r].hint
        /\ ~cycles[r].assessment.needs_escalation
        /\ cycles[r].ticket = 0 /\ cycles[r].reply = "answer"
        /\ total_requests > 0

\* C14: when the nearest open neighbour of a submission is closer than the
\* merge threshold, create_ticket returns (that case, False), appends
\* exactly one response to it and refreshes its updated_at; no case is
\* created, the collection is unchanged and no other field of any case
\* changes.
C14_MergeFrame ==
    [][\A u \in Users, t \in Texts :
          (find_similar_open_ticket(t) # {} /\ ManualEscalation(u, t)) =>
              \E id \in find_similar_open_ticket(t) :
                  /\ last'.op = "create_ticket" /\ last'.id = id
                  /\ last'.ok /\ ~last'.is_new
                  /\ Len(responses') = Len(responses) + 1
                  /\ SubSeq(responses', 1, Len(responses)) = responses
                  /\ responses'[Len(responses')].ticket_id = id
                  /\ tickets' = [tickets EXCEPT ![id].updated_at = now']
                  /\ tickets'[id].updated_at > tickets[id].updated_at
                  /\ collection' = collection]_vars

\* C14 witness: a submission has just been merged into a case created earlier
C14_Witness ==
    /\ last.op = "create_ticket" /\ ~last.is_new /\ last.id \in TicketIds
    /\ tickets[last.id].status = OPEN
    /\ tickets[last.id].updated_at = now
    /\ tickets[last.id].created_at < now
    /\ Len(responses) > 0
    /\ responses[Len(responses)] = [ticket_id |-> last.id, operator_id |-> SystemOperator]

\* statuses the specification keeps as deduplication candidates
DedupEligible == {OPEN, IN_PROGRESS, ESCALATED}

\* C17: a submission within the merge threshold of a case that is
\* InProgress or Escalated is merged instead of creating a new case.
C17_ActiveCasesAreCandidates ==
    [][\A u \in Users, t \in Texts :
          (/\ ManualEscalation(u, t)
           /\ \E e \in collection :
                 /\ e.status \in {IN_PROGRESS, ESCALATED}
                 /\ tickets[e.id].status = e.status
                 /\ Distance(t, e.text) < MergeThreshold) =>
              (~last'.is_new /\ Len(tickets') = Len(tickets))]_vars

HasEntry(coll, i) == \E e \in coll : e.id = i

\* C19: the collection sees one insert and one removal per case: an entry
\* for a case appears only in the step that creates the case, stays while
\* the case moves between non-terminal statuses, disappears only in a step
\* that resolves or closes the case, a resolve leaves no entry behind, and
\* a case that has been resolved is returned by no later similarity query.
C19_IndexRoundTrip ==
    [][\A i \in 1..MaxTickets :
          /\ (~HasEntry(collection, i) /\ HasEntry(collection', i)) =>
                 (i \notin TicketIds /\ Len(tickets') = i)
          /\ (HasEntry(collection, i) /\ ~HasEntry(collection', i)) =>
                 (tickets'[i].status \in Terminal /\ last'.id = i)
          /\ (HasEntry(collection, i) /\ tickets'[i].status \notin Terminal) =>
                 HasEntry(collection', i)
          /\ (i \in TicketIds /\ last'.op = "resolve" /\ last'.id = i) =>
                 ~HasEntry(collection', i)
          /\ (i \in TicketIds /\ tickets'[i].resolved_at # NoTime) =>
                 /\ ~HasEntry(collection', i)
                 /\ \A u \in Users, t \in Texts :
                       ManualEscalation(u, t) => last'.id # i]_vars

\* C19 witness: the only case was created, moved to InProgress by an
\* operator in the next step and resolved in the step after; the collection
\* holds no entry for it
C19_Witness ==
    /\ Len(tickets) = 1
    /\ last.op = "resolve" /\ last.id = 1
    /\ tickets[1].status = RESOLVED
    /\ tickets[1].operator_id # NoOperator
    /\ tickets[1].resolved_at = tickets[1].created_at + 2
    /\ ~HasEntry(collection, 1)

\* C20: the collection holds an entry for a case exactly when the case is
\* Open, InProgress or Escalated, and the entry's status is the case's.
C20_IndexMirrorsStore ==
    /\ \A i \in TicketIds :
          HasEntry(collection, i) <=> tickets[i].status \in DedupEligible
    /\ \A e \in collection :
          e.id \in TicketIds /\ e.status = tickets[e.id].status

\* the collection served every request of call c
IndexServed(c) == c.has_collection /\ ~c.query_failed /\ ~c.add_failed

\* what create_ticket registers in the collection for call c
EntryOf(c) == [id |-> c.row, status |-> OPEN, text |-> c.text, user_id |-> c.user]

\* C15: with the collection available, a call whose query finds no open
\* case within the merge threshold goes on to create: it commits exactly
\* one new row with status Open and a fresh id, adds exactly one entry for
\* that id to the collection and returns (that case, True).
C15_CreateWhenNoMatch ==
    [][\A p \in Callers :
          LET c == calls[p]
              d == calls'[p]
          IN  /\ (c.pc = "query" /\ d.pc # "query" /\ ~d.query_failed
                      /\ find_similar_open_ticket(c.text) = {}) =>
                     d.pc = "commit"
              /\ (c.pc = "commit" /\ d.pc # "commit") =>
                     /\ tickets' = Append(tickets, NewRow(c.user, c.text, LINE_1, "other", now'))
                     /\ tickets'[d.row].status = OPEN
                     /\ d.row = Len(tickets) + 1
                     /\ \A q \in Callers \ {p} : calls[q].row # d.row
                     /\ UNCHANGED <<responses, collection>>
              /\ (c.pc = "commit" /\ c.has_collection) => d.pc \in {"commit", "insert"}
              /\ (c.pc = "insert" /\ d.pc # "insert" /\ ~d.add_failed) =>
                     /\ ~HasEntry(collection, c.row)
                     /\ collection' = collection \cup {EntryOf(c)}
                     /\ UNCHANGED <<tickets, responses>>
                     /\ d.pc = "done" /\ d.ok /\ d.is_new /\ d.ticket = c.row
                     /\ last' = [op |-> "create_ticket", id |-> c.row,
                                 ok |-> TRUE, is_new |-> TRUE]]_vars

\* C15 witness: a call served by the collection found no neighbour and has
\* returned its new Open case, which has its one entry in the collection,
\* while an earlier case with another text exists
C15_Witness ==
    \E p \in Callers :
        /\ calls[p].pc = "done" /\ IndexServed(calls[p]) /\ calls[p].found = 0
        /\ calls[p].ok /\ calls[p].is_new /\ calls[p].ticket = 2
        /\ tickets[2].status = OPEN /\ tickets[2].text = calls[p].text
        /\ tickets[1].text # tickets[2].text
        /\ {e \in collection : e.id = 2} = {EntryOf(calls[p])}

\* C16: a call that the similarity service failed (no collection, the
\* query raised, or the insert raised) still returns (new case, True) and
\* the case is in the store.
C16_DedupFailsOpen ==
    \A p \in Callers :
        (calls[p].pc = "done" /\ ~IndexServed(calls[p])) =>
            /\ calls[p].ok /\ calls[p].is_new
            /\ calls[p].ticket \in TicketIds
            /\ calls[p].ticket = calls[p].row
            /\ tickets[calls[p].ticket].text = calls[p].text

\* both calls have returned, they carried the same text, and the
\* collection served both
TwinsDone(p, q) ==
    /\ p # q
    /\ calls[p].pc = "done" /\ calls[q].pc = "done"
    /\ calls[p].text = calls[q].text
    /\ IndexServed(calls[p]) /\ IndexServed(calls[q])

OpenCasesWith(text) == {i \in TicketIds : tickets[i].text = text /\ tickets[i].status = OPEN}

\* C18: with the collection available, two calls with identical text leave
\* at most two open cases of that text under every interleaving, one more
\* than when they run one after the other: a call whose query runs after
\* the other call has returned its new case finds that case, and a call
\* that found a case creates none.
C18_AtMostOneExtraCase ==
    [][\A p \in Callers, q \in Callers :
          /\ TwinsDone(p, q)' => Cardinality(OpenCasesWith(calls[p].text))' \in {1, 2}
          /\ (TwinsDone(p, q)' /\ calls'[p].found # 0) =>
                 /\ Cardinality(OpenCasesWith(calls[p].text))' = 1
                 /\ calls'[p].found = calls'[q].ticket
                 /\ ~calls'[p].is_new /\ calls'[p].row = 0
          /\ (/\ p # q /\ calls[p].pc = "query" /\ calls'[p].pc # "query"
              /\ ~calls'[p].query_failed
              /\ calls[q].pc = "done" /\ calls[q].is_new /\ calls[q].ok
              /\ IndexServed(calls[q]) /\ calls[q].text = calls[p].text) =>
                 (calls'[p].pc = "merge" /\ calls'[p].found = calls[q].ticket)]_vars

\* C18 witness: both calls queried before either had registered its case,
\* and two open cases with the same text exist
C18_Witness ==
    \E p \in Callers, q \in Callers :
        /\ TwinsDone(p, q)
        /\ calls[p].is_new /\ calls[q].is_new
        /\ calls[p].ticket # calls[q].ticket
        /\ Cardinality(OpenCasesWith(calls[p].text)) = 2
        /\ Cardinality({e \in collection : e.text = calls[p].text}) = 2

\* the case is assigned to an operator other than op
HeldByOther(row, op) == row.operator_id # NoOperator /\ row.operator_id # op

\* C21: a take on an Open or Escalated case that no other operator holds
\* moves it to InProgress with the taker as assignee; a take on a case held
\* by another operator is refused and leaves the case as it was (status,
\* assignee, updated_at and every other field).
C21_ClaimOrAlreadyClaimed ==
    [][\A op \in Operators, id \in 1..MaxTickets :
          Take(op, id) =>
              /\ (tickets[id].status \in {OPEN, ESCALATED} /\ ~HeldByOther(tickets[id], op)) =>
                     /\ last'.ok
                     /\ tickets'[id].status = IN_PROGRESS
                     /\ tickets'[id].operator_id = op
              /\ HeldByOther(tickets[id], op) =>
                     /\ ~last'.ok
                     /\ tickets' = tickets
                     /\ collection' = collection]_vars

\* C21 witness: a case is InProgress with its assignee, and a take by the
\* other operator has just been refused without touching the row
C21_Witness ==
    /\ last.op = "take" /\ ~last.ok /\ last.id \in TicketIds
    /\ tickets[last.id].status = IN_PROGRESS
    /\ tickets[last.id].operator_id # NoOperator
    /\ tickets[last.id].updated_at < now

\* C27: every step that changes the status of a case appends exactly one
\* response (history entry) for that case and moves its updated_at forward.
C27_TransitionWritesHistory ==
    [][\A i \in TicketIds :
          tickets'[i].status # tickets[i].status =>
              /\ Len(responses') = Len(responses) + 1
              /\ responses'[Len(responses')].ticket_id = i
              /\ tickets'[i].updated_at > tickets[i].updated_at]_vars

\* what one record_request call does to the counters
CountsOneOutcome(bank, esc) ==
    /\ total_requests' = total_requests + 1
    /\ off_topic' = off_topic + (IF ~bank THEN 1 ELSE 0)
    /\ escalated' = escalated + (IF bank /\ esc THEN 1 ELSE 0)
    /\ ai_resolved' = ai_resolved + (IF bank /\ ~esc THEN 1 ELSE 0)

\* C28 as stated: the counters add up and the reported success rate is
\* exactly 100 * ai_resolved / total_requests.
C28_ExactSuccessRate ==
    /\ total_requests = ai_resolved + escalated + off_topic
    /\ total_requests > 0 =>
          SuccessRateTenths(total_requests, ai_resolved) * total_requests = 1000 * ai_resolved

\* C28 (amended): each record_request call adds one to total_requests and
\* one to exactly one of off_topic, escalated, ai_resolved (off-topic if not
\* in domain, else escalated if needs_escalation, else ai_resolved), the
\* counters add up after every call, and the reported success rate is
\* 100 * ai_resolved / total_requests rounded to one decimal place.
C28_CountersAddUp ==
    [][/\ \A cat \in Category, line \in SupportLine, bank \in BOOLEAN, esc \in BOOLEAN :
             RecordOutcome(cat, line, bank, esc) => CountsOneOutcome(bank, esc)
       /\ total_requests' = ai_resolved' + escalated' + off_topic'
       /\ 2 * Abs(SuccessRateTenths(total_requests', ai_resolved') * total_requests'
                    - 1000 * ai_resolved') <= total_requests']_vars

\* C28 witness: one request of each outcome was recorded, and the reported
\* rate of 1 in 3 is 33.3
C28_Witness ==
    /\ total_requests = 3
    /\ ai_resolved = 1 /\ escalated = 1 /\ off_topic = 1
    /\ SuccessRateTenths(total_requests, ai_resolved) = 333

\* the cycles whose outcome has been recorded, by outcome
RecordedCycles(esc) ==
    {r \in Slots : Decided(r) /\ cycles[r].assessment.needs_escalation = esc}

\* C23: outcome recording loses no update: whatever the interleaving of
\* the request cycles, the total has grown by the number of cycles that
\* recorded an outcome, and the auto-resolved and escalated counters by the
\* number of cycles with each outcome.
C23_NoLostOutcome ==
    \E c \in EarlierTraffic :
        /\ total_requests = c[1] + Cardinality(RecordedCycles(TRUE) \cup RecordedCycles(FALSE))
        /\ ai_resolved = c[2] + Cardinality(RecordedCycles(FALSE))
        /\ escalated = (c[1] - c[2]) + Cardinality(RecordedCycles(TRUE))
        /\ off_topic = 0

\* C23 witness: two cycles in flight together have both recorded, one of
\* each outcome; the escalating one recorded and is still on its way
C23_Witness ==
    /\ cycles[1].pc = "escalating" /\ Decided(1)
    /\ cycles[2].pc = "done" /\ Decided(2)
    /\ ~cycles[2].assessment.needs_escalation
    /\ total_requests = 2 /\ ai_resolved = 1 /\ escalated = 1

\* the step in which the classification of slot r's request fails: the
\* model's output is malformed, or the call raises
ClassificationFails(r) ==
    \/ ClassifyRaises(r)
    \/ \E u \in Users, t \in Texts : ClassifiedMalformed(r, u, t)

\* C24: a classification failure is never fatal: whenever the classifier
\* raises or returns malformed output, the cycle goes on to answer drafting
\* with the safe default (category other, line 1, in domain).
C24_ClassificationFailureNotFatal ==
    [][\A r \in Slots :
          ClassificationFails(r) =>
              /\ cycles'[r].pc = "drafting"
              /\ cycles'[r].line = DefaultClassification.line
              /\ cycles'[r].cat = DefaultClassification.cat
              /\ cycles'[r].bank = DefaultClassification.bank]_vars

\* a cycle that has ended, by its last line or by an exception
Ended(r) == cycles[r].pc \in {"done", "aborted"}

\* C26: every request gets some answer: no failure of the classifier, the
\* lookup, the drafter, the assessment, the store or the index makes a
\* request cycle end without a reply having been sent.
C26_EndedCycleHasReply ==
    \A r \in Slots : Ended(r) => cycles[r].reply # "none"

\* C25: whenever the self-assessment fails (the model call raises, the
\* reply holds no JSON object, or a field does not convert), assess_response
\* returns exactly is_resolved = true, confidence = 70, needs_escalation =
\* false, and raises nothing: the cycle goes on and answers.
C25_AssessmentFallback ==
    [][\A r \in Slots, reply \in AssessReplies :
          (~reply.parsed /\ Assessed(r, reply)) =>
              /\ cycles'[r].assessment.is_resolved
              /\ cycles'[r].assessment.confidence = 70
              /\ ~cycles'[r].assessment.needs_escalation
              /\ cycles'[r].pc = "done" /\ cycles'[r].reply = "answer"]_vars

\* C25 witness: a line-2 request whose assessment failed was answered with
\* the fallback values, while another cycle's parsed assessment escalated
C25_Witness ==
    \E r, q \in Slots :
        /\ Decided(r) /\ ~cycles[r].assessment.parsed
        /\ cycles[r].line = LINE_2
        /\ cycles[r].assessment.confidence = 70
        /\ cycles[r].pc = "done" /\ cycles[r].reply = "answer"
        /\ Decided(q) /\ cycles[q].assessment.parsed
        /\ cycles[q].assessment.needs_escalation

\* C22: concurrent claims of one case are serialized: when two different
\* operators claim the same unassigned case at the same time, exactly one of
\* them is told the claim succeeded; the other is refused.
C22_OneClaimSucceeds ==
    \A p, q \in Operators :
        (/\ p # q
         /\ takes[p].pc = "done" /\ takes[q].pc = "done"
         /\ takes[p].id = takes[q].id
         /\ takes[p].ok) => ~takes[q].ok

\* the calls of user u for action a that were allowed and lie inside the
\* current window
AllowedInWindow(u, a) == Len(granted[<<u, a>>])

\* the answer is_allowed(u, a) would give in this state
NextCallAllowed(u, a) ==
    Len(StillInWindow(requests[<<u, a>>], now, window_seconds(a))) < max_requests(a)

\* C29: is_allowed(user, action) returns True exactly when fewer than
\* max_requests earlier allowed calls of that user for that action lie
\* inside the current window, so no pair is allowed more than max_requests
\* times per window; denied calls do not count; get_remaining is
\* max_requests minus the allowed calls in the window; after
\* reset(user, action) the next call is allowed.
C29_RateLimiter ==
    [][/\ \A u \in Users, a \in LimitedActions :
            /\ is_allowed(u, a) =>
                    (verdict'.result = 1 <=> AllowedInWindow(u, a) < max_requests(a))
            /\ get_remaining(u, a) =>
                    verdict'.result = max_requests(a) - AllowedInWindow(u, a)
            /\ reset(u, a) => NextCallAllowed(u, a)'
       /\ \A u \in Users, a \in LimitedActions :
            AllowedInWindow(u, a)' <= max_requests(a)]_vars

\* C29 witness: at time 3 or later a call is denied to a pair with two
\* allowed calls in its window, while the same user's other action has one
\* allowed call in its window and the other user has none
C29_Witness ==
    /\ verdict = [op |-> "is_allowed", result |-> 0]
    /\ now >= 3
    /\ AllowedInWindow(1, "message") = 2
    /\ ~NextCallAllowed(1, "message")
    /\ AllowedInWindow(1, "ticket_creation") = 1
    /\ AllowedInWindow(2, "message") = 0

\* what holds of a call through the retry wrapper at every moment
RetryBounded ==
    /\ retry.invocations <= retry.max_retries + 1
    /\ retry.successes <= 1
    /\ retry.outcome = "returned" =>
            retry.successes = 1 /\ retry.result = retry.invocations
    /\ retry.outcome = "raised" =>
            retry.successes = 0 /\ retry.raised = retry.last_thrown

\* C30: retry_with_backoff and call_with_retry always terminate after at
\* most max_retries + 1 invocations of the wrapped function: the first
\* successful result is returned without a further invocation, and when
\* every attempt fails the last exception is raised.
C30_RetryTerminates ==
    /\ []RetryBounded
    /\ [](retry.pc = "calling" => <>(retry.pc = "done"))

\* C30 witness: call_with_retry with max_retries = 3 made four invocations
\* that raised different exceptions and re-raised the last one
C30_Witness ==
    /\ retry.pc = "done" /\ retry.api = "call_with_retry"
    /\ retry.max_retries = 3 /\ retry.invocations = 4
    /\ retry.outcome = "raised" /\ retry.raised = "TimeoutError"
    /\ retry.delay = 8

\* the lifetime asked for by a set: the ttl given, the default for None
RequestedTtl(ttl) == IF ttl = -1 THEN default_ttl ELSE ttl

\* the value the most recent set of key k left, None once its ttl has
\* elapsed or after a delete
LatestLive(k) ==
    LET w == cache.written[k]
    IN  IF w.live /\ now - w.at < RequestedTtl(w.ttl) THEN w.value ELSE None

\* the wrapped callable has run for these arguments and the ttl of that
\* result has not elapsed
RanInsideTtl(a) == cache.ran_at[a] >= 0 /\ now - cache.ran_at[a] < cache_ttl

\* C31: get(key) returns the value of the most recent set(key, value, ttl)
\* while that entry's ttl has not elapsed and None once it has elapsed or
\* after delete(key); a callable wrapped with cache_result is not executed
\* again for the same arguments inside the ttl.
C31_CacheContract ==
    [][/\ \A k \in DirectKeys : Get(k) => cache'.returned.value = LatestLive(k)
       /\ \A a \in CallArgs, v \in CacheValues \cup {None} :
              (CachedCall(a, v) /\ RanInsideTtl(a)) => ~cache'.returned.executed]_vars

\* C32: a duplicate submission is never merged into a case whose stored
\* status is Resolved or Closed, under every interleaving of create_ticket
\* with a concurrent resolve of the matched case.
C32_NoMergeIntoResolved ==
    [][\A p \in Callers :
          MergeCommit(p) => tickets[calls[p].found].status \notin Terminal]_vars

\* C33: whenever the decision for a request is needs_escalation, a case
\* for it exists in the store by the time the reply is sent; an error in
\* the store or the collection during escalation does not leave an
\* escalated request without a case.
C33_EscalatedRequestHasCase ==
    \A r \in Slots :
        (/\ Decided(r) /\ cycles[r].assessment.needs_escalation
         /\ cycles[r].pc = "done" /\ cycles[r].reply = "answer") =>
            cycles[r].ticket \in TicketIds

\* C35: failure is atomic for the store: when create_ticket raises, that
\* call has persisted no case, and when update_ticket_status raises, the
\* case's stored status is the one it had before the call, also when the
\* collection step fails after the commit.
C35_FailureLeavesStoreUntouched ==
    [][/\ \A p \in Callers :
            IndexAdd(p, TRUE) => calls[p].row \notin 1..Len(tickets')
       /\ \A op \in Operators :
            CloseSync(op, TRUE) => tickets'[takes[op].id].status = takes[op].loaded]_vars

\* C34: for an empty description create_ticket performs no similarity
\* lookup and creates a new case directly, so an empty text is never merged
\* into an existing case.
C34_EmptyTextSkipsLookup ==
    [][\A p \in Callers :
          /\ (\E u \in Users, c \in BOOLEAN : Submit(p, u, EmptyText, c)) =>
                 calls'[p].pc = "commit"
          /\ MergeCommit(p) => calls[p].text # EmptyText]_vars

\* EscalationSystem.get_user_tickets: the cases of one requester
get_user_tickets(user) == {i \in TicketIds : tickets[i].user_id = user}

\* C36: whenever a requester is told that case #id was created for them or
\* that their request was added to case #id, get_user_tickets returns that
\* case for that requester; a merge never attaches a submission to a case
\* owned by another requester.
C36_ToldCaseIsOwn ==
    [][\A u \in Users, t \in Texts :
          ManualEscalation(u, t) =>
              last'.id \in get_user_tickets(u)']_vars

\* the cycles whose assessment returns in this step
Deciding == {r \in Slots : cycles[r].pc = "assessing" /\ cycles'[r].pc # "assessing"}

\* C37: the threshold applied to a request's confidence is the value
\* computed from the counters when its assessment starts: other cycles'
\* outcomes recorded while the assessment is awaited do not change it, and
\* its own outcome is recorded only with the decision; every in-domain
\* cycle that reaches a decision records exactly one sample, whether or not
\* the later case creation succeeds.
C37_ThresholdFixedAtStart ==
    [][/\ \A r \in Slots :
            /\ Drafted(r) =>
                   cycles'[r].threshold = AdaptiveThreshold(total_requests, ai_resolved)
            /\ (cycles[r].pc = "assessing" /\ cycles'[r].pc = "assessing") =>
                   cycles'[r].threshold = cycles[r].threshold
            /\ (r \in Deciding /\ cycles'[r].assessment.parsed /\ cycles[r].line = LINE_1) =>
                   (cycles'[r].assessment.needs_escalation <=>
                       (cycles'[r].assessment.confidence < cycles[r].threshold \/ cycles'[r].hint))
       /\ total_requests' = total_requests + Cardinality(Deciding)
       /\ ai_resolved' + escalated' = ai_resolved + escalated + Cardinality(Deciding)]_vars

\* C37 witness: two cycles have recorded one sample each and both were
\* answered without a case; one of them, a tier-1 request, passed because
\* its confidence reached the threshold it read when its assessment
\* started, although the counters without its own sample (the other
\* cycle's outcome included) give a threshold above that confidence
C37_Witness ==
    \E r \in Slots : \E q \in Slots \ {r} :
        /\ Decided(r) /\ cycles[r].line = LINE_1 /\ cycles[r].assessment.parsed
        /\ ~cycles[r].hint /\ ~cycles[r].assessment.needs_escalation
        /\ cycles[r].assessment.confidence >= cycles[r].threshold
        /\ cycles[r].assessment.confidence < AdaptiveThreshold(total_requests - 1, ai_resolved - 1)
        /\ Decided(q) /\ ~cycles[q].assessment.needs_escalation
        /\ total_requests = 6 /\ ai_resolved = 6

\* the last n elements of a sequence (all of it when it is shorter)
LastN(s, n) == SubSeq(s, Len(s) - Min2(Len(s), n) + 1, Len(s))

\* C38: after any sequence of add_to_conversation and /clear calls each
\* user's context holds at most 10 messages (as many as arrived since the
\* last /clear, up to 10); every added message goes to the end and what is
\* kept is the last 10 of the previous context followed by it, so the
\* oldest is dropped first; /clear empties the caller's context; and no call
\* changes another user's context.
C38_ContextWindow ==
    /\ [](\A u \in Users : Len(conversations[u]) = Min2(arrivals[u], 10))
    /\ [][/\ \A u \in Users : \A role \in Roles(u) :
                AddToConversation(u, role, 1) =>
                    /\ conversations'[u] =
                           LastN(Append(conversations[u], [role |-> role, content |-> 1]), 10)
                    /\ \A v \in Users \ {u} : conversations'[v] = conversations[v]
          /\ \A u \in Users :
                cmd_clear(u) =>
                    /\ conversations'[u] = <<>>
                    /\ \A v \in Users \ {u} : conversations'[v] = conversations[v]]_vars

\* C38 witness: the first user's context was handed twelve messages since
\* its last /clear and holds ten, a question first and an answer last,
\* while the second user's context holds its single message
C38_Witness ==
    /\ arrivals[1] = 12 /\ Len(conversations[1]) = 10
    /\ conversations[1][1].role = "user" /\ conversations[1][10].role = "assistant"
    /\ arrivals[2] = 1 /\ Len(conversations[2]) = 1

\* C39: the dictionary get_queue_stats returns has, for every line, total =
\* the number of the line's cases that are not Closed and open = the number
\* of the line's cases that are Open, hence open <= total for every line,
\* and the totals add up to the number of non-Closed cases in the store.
C39_QueueStats ==
    [][(stats.pc = "open" /\ stats'.pc = "done") =>
          /\ \A l \in SupportLine :
                /\ stats'.result[l].total = CountTotal(l)
                /\ stats'.result[l].open = CountOpen(l)
                /\ stats'.result[l].open <= stats'.result[l].total
          /\ stats'.result[LINE_1].total + stats'.result[LINE_2].total + stats'.result[LINE_3].total
                = Cardinality({i \in TicketIds : tickets[i].status # CLOSED})]_vars

====
